---- MODULE Spec2Model ----
(***************************************************************************)
(* Model of wedding_planner (wedp): the per-repository build-artifact      *)
(* installer (wedding_invite.rs), the compose command assembler and the    *)
(* Runner facade (runner.rs), the dress rehearsal (dress_rehearsal.rs),    *)
(* and the dependency / venue lifecycle (dependency.rs, seating_plan.rs,   *)
(* file_handler.rs, commands).                                             *)
(*                                                                         *)
(* Strings are sequences of atoms.  The path separator "/" is always an    *)
(* atom of its own, so that Path::join and Path component comparison are   *)
(* computed, not assumed.  Option<T> is a sequence of length 0 (None) or   *)
(* 1 (Some).                                                               *)
(***************************************************************************)
EXTENDS Integers, Sequences, FiniteSets, TLC

VARIABLES
    hostArch,       \* std::env::consts::ARCH of the build that runs
    seating_plan,   \* SeatingPlan { attendees, venue }
    dirs,           \* the directories on disk, as resolved component lists
    invite_files,   \* the regular files on disk: resolved path -> the manifest its content decodes to, if any
    run_log,        \* the commands handed to CoreRunner::run so far
    last,           \* the last operation: its arguments, its result and the collaborator calls it made
    install,        \* install_dependencies: its position in the loop and the steps it has taken
    drain           \* run_docker_command: the child's two pipes and the position of the draining loop

vars == <<hostArch, seating_plan, dirs, invite_files, run_log, last, install, drain>>

---------------------------------------------------------------------------
(* Options and strings *)

None == <<>>

Some(x) == <<x>>

IsNone(o) == Len(o) = 0

IsSome(o) == Len(o) = 1

Unwrapped(o) == o[1]

SEP == "/"

RECURSIVE Flatten(_)
\* concatenation of a sequence of strings
Flatten(ss) == IF ss = <<>> THEN <<>> ELSE Head(ss) \o Flatten(Tail(ss))

\* PathBuf::push as used by Path::join: an absolute component replaces the
\* base, otherwise a separator is added unless the base is empty or already
\* ends with one
Join(base, comp) ==
    IF Len(comp) > 0 /\ comp[1] = SEP THEN comp
    ELSE IF Len(base) = 0 THEN comp
    ELSE IF base[Len(base)] = SEP THEN base \o comp
    ELSE base \o <<SEP>> \o comp

\* Path::components: the root, then the non-empty components; "." is kept
\* only as the first component of a relative path
Components(p) ==
    LET root == IF Len(p) > 0 /\ p[1] = SEP THEN << <<SEP>> >> ELSE <<>>
        Flush(cur, acc) ==
            IF cur = <<>> THEN acc
            ELSE IF cur = <<".">> /\ acc # <<>> THEN acc
            ELSE Append(acc, cur)
        RECURSIVE Walk(_, _, _)
        Walk(i, cur, acc) ==
            IF i > Len(p) THEN Flush(cur, acc)
            ELSE IF p[i] = SEP THEN Walk(i + 1, <<>>, Flush(cur, acc))
            ELSE Walk(i + 1, Append(cur, p[i]), acc)
    IN  Walk(1, <<>>, root)

\* env::current_dir()
Cwd == <<SEP, "w">>

\* the file system entry a path names, for a process running in Cwd
Resolve(p) == Components(Join(Cwd, p))

\* the directories above a resolved path, and the path itself
Prefixes(rp) == { SubSeq(rp, 1, n) : n \in 1..Len(rp) }

---------------------------------------------------------------------------
(* Results *)

Ok(v) == [status |-> "ok", value |-> v]

Err(v) == [status |-> "err", value |-> v]

Panic(v) == [status |-> "panic", value |-> v]

---------------------------------------------------------------------------
(* cpu_data.rs *)

CpuType_get(arch) ==
    CASE arch = "x86" -> Ok("X86")
      [] arch = "x86_64" -> Ok("X86_64")
      [] arch = "arm" -> Ok("Arm")
      [] arch = "aarch64" -> Ok("Aarch64")
      [] arch = "m68k" -> Ok("M68k")
      [] arch = "mips" -> Ok("Mips")
      [] arch = "mips64" -> Ok("Mips64")
      [] arch = "powerpc" -> Ok("Powerpc")
      [] arch = "powerpc64" -> Ok("Powerpc64")
      [] arch = "riscv64" -> Ok("Riscv64")
      [] arch = "s390x" -> Ok("S390x")
      [] arch = "sparc64" -> Ok("Sparc64")
      [] OTHER -> Panic(<<"Unsupported CPU type: ", arch>>)

\* the variants of enum CpuType
CpuTypes ==
    {"X86", "X86_64", "Arm", "Aarch64", "M68k", "Mips", "Mips64", "Powerpc",
     "Powerpc64", "Riscv64", "S390x", "Sparc64"}

\* a slip: the 64-bit ARM variant is spelled the way some hosts report it
CpuType_to_string_arm64(cpu) ==
    CASE cpu = "X86" -> "x86"
      [] cpu = "X86_64" -> "x86_64"
      [] cpu = "Arm" -> "arm"
      [] cpu = "Aarch64" -> "arm64"
      [] cpu = "M68k" -> "m68k"
      [] cpu = "Mips" -> "mips"
      [] cpu = "Mips64" -> "mips64"
      [] cpu = "Powerpc" -> "powerpc"
      [] cpu = "Powerpc64" -> "powerpc64"
      [] cpu = "Riscv64" -> "riscv64"
      [] cpu = "S390x" -> "s390x"
      [] cpu = "Sparc64" -> "sparc64"

CpuType_to_string(cpu) ==
    CASE cpu = "X86" -> "x86"
      [] cpu = "X86_64" -> "x86_64"
      [] cpu = "Arm" -> "arm"
      [] cpu = "Aarch64" -> "aarch64"
      [] cpu = "M68k" -> "m68k"
      [] cpu = "Mips" -> "mips"
      [] cpu = "Mips64" -> "mips64"
      [] cpu = "Powerpc" -> "powerpc"
      [] cpu = "Powerpc64" -> "powerpc64"
      [] cpu = "Riscv64" -> "riscv64"
      [] cpu = "S390x" -> "s390x"
      [] cpu = "Sparc64" -> "sparc64"

---------------------------------------------------------------------------
(* wedding_invite.rs: the build artifact installer.  `copy_result` and      *)
(* `remove_result` are what the file-handle collaborator answers.           *)

CopyCall(from, to) == [op |-> "copy", from |-> from, to |-> to]

RemoveCall(path) == [op |-> "remove", path |-> path]

Returned(result, file_calls) ==
    [status |-> result.status, value |-> result.value, file_calls |-> file_calls]

\* a slip: a lock that is written down counts as set, whatever it says
Locked_when_present(build_lock) == IsSome(build_lock)

Locked(build_lock) == IsSome(build_lock) /\ Unwrapped(build_lock) = TRUE

\* a slip: the file of a fixed architecture is taken whenever the manifest has one
select_and_copy_fixed_arch(self, venue_path, name, arch, copy_result) ==
    LET invite_path == Join(venue_path, name)
        cpu == CpuType_get(arch)
    IN  IF cpu.status = "panic" THEN Returned(cpu, <<>>)
        ELSE IF IsNone(self.build_files)
        THEN Returned(Panic(<<"called Option::unwrap() on a None value">>), <<>>)
        ELSE
            LET files_map == Unwrapped(self.build_files)
                cpu_type == IF "x86_64" \in DOMAIN files_map
                            THEN "x86_64" ELSE CpuType_to_string(cpu.value)
            IN  IF cpu_type \notin DOMAIN files_map
                THEN Returned(Err(<<"No build file for CPU type: ", cpu_type>>), <<>>)
                ELSE
                    LET build_path == Join(invite_path, files_map[cpu_type])
                        build_root_path ==
                            Join(Join(invite_path, self.build_root), <<"Dockerfile">>)
                    IN  Returned(copy_result, <<CopyCall(build_path, build_root_path)>>)

\* a slip: a missing architecture entry is treated as nothing to do
select_and_copy_missing_ok(self, venue_path, name, arch, copy_result) ==
    LET invite_path == Join(venue_path, name)
        cpu == CpuType_get(arch)
    IN  IF cpu.status = "panic" THEN Returned(cpu, <<>>)
        ELSE IF IsNone(self.build_files)
        THEN Returned(Panic(<<"called Option::unwrap() on a None value">>), <<>>)
        ELSE
            LET cpu_type == CpuType_to_string(cpu.value)
                files_map == Unwrapped(self.build_files)
            IN  IF cpu_type \notin DOMAIN files_map
                THEN Returned(Ok(<<"0">>), <<>>)
                ELSE
                    LET build_path == Join(invite_path, files_map[cpu_type])
                        build_root_path ==
                            Join(Join(invite_path, self.build_root), <<"Dockerfile">>)
                    IN  Returned(copy_result, <<CopyCall(build_path, build_root_path)>>)

\* prepare_build_file past its lock check: select the Dockerfile of the
\* resolved architecture and copy it to the build root
select_and_copy(self, venue_path, name, arch, copy_result) ==
    LET invite_path == Join(venue_path, name)
        cpu == CpuType_get(arch)
    IN  IF cpu.status = "panic" THEN Returned(cpu, <<>>)
        ELSE IF IsNone(self.build_files)
        THEN Returned(Panic(<<"called Option::unwrap() on a None value">>), <<>>)
        ELSE
            LET cpu_type == CpuType_to_string(cpu.value)
                files_map == Unwrapped(self.build_files)
            IN  IF cpu_type \notin DOMAIN files_map
                THEN Returned(Err(<<"No build file for CPU type: ", cpu_type>>), <<>>)
                ELSE
                    LET build_path == Join(invite_path, files_map[cpu_type])
                        build_root_path ==
                            Join(Join(invite_path, self.build_root), <<"Dockerfile">>)
                    IN  Returned(copy_result, <<CopyCall(build_path, build_root_path)>>)

\* a slip: the lock is only honoured when the manifest has no build files
prepare_build_file_lock_needs_no_files(self, venue_path, name, arch, copy_result) ==
    IF Locked(self.build_lock) /\ IsNone(self.build_files)
    THEN Returned(Ok(<<"0">>), <<>>)
    ELSE select_and_copy(self, venue_path, name, arch, copy_result)

prepare_build_file(self, venue_path, name, arch, copy_result) ==
    IF Locked(self.build_lock)
    THEN Returned(Ok(<<"0">>), <<>>)
    ELSE select_and_copy(self, venue_path, name, arch, copy_result)

\* a slip: like prepare_build_file, the removal wants build_files present
delete_build_file_needs_files(self, venue_path, name, remove_result) ==
    IF Locked(self.build_lock) \/ IsNone(self.build_files)
    THEN Returned(Ok(<<>>), <<>>)
    ELSE
        LET invite_path == Join(venue_path, name)
            build_root_path == Join(Join(invite_path, self.build_root), <<"Dockerfile">>)
        IN  Returned(remove_result, <<RemoveCall(build_root_path)>>)

delete_build_file(self, venue_path, name, remove_result) ==
    IF Locked(self.build_lock)
    THEN Returned(Ok(<<>>), <<>>)
    ELSE
        LET invite_path == Join(venue_path, name)
            build_root_path == Join(Join(invite_path, self.build_root), <<"Dockerfile">>)
        IN  Returned(remove_result, <<RemoveCall(build_root_path)>>)

\* a slip: without an init_build the top-level build target is prepared
prepare_init_build_file_falling_back(self, venue_path, name, arch, copy_result) ==
    IF IsNone(self.init_build)
    THEN prepare_build_file(self, venue_path, name, arch, copy_result)
    ELSE
        LET init_build == Unwrapped(self.init_build)
            invite_path == Join(venue_path, name)
            cpu == CpuType_get(arch)
        IN  IF Locked(init_build.build_lock) THEN Returned(Ok(<<"0">>), <<>>)
            ELSE IF cpu.status = "panic" THEN Returned(cpu, <<>>)
            ELSE
                LET cpu_type == CpuType_to_string(cpu.value)
                IN  IF cpu_type \notin DOMAIN init_build.build_files
                    THEN Returned(Panic(<<"No build file for CPU type: ", cpu_type>>), <<>>)
                    ELSE
                        LET build_path ==
                                Join(invite_path, init_build.build_files[cpu_type])
                            build_root_path ==
                                Join(Join(invite_path, init_build.build_root),
                                     <<"Dockerfile">>)
                        IN  Returned(copy_result, <<CopyCall(build_path, build_root_path)>>)

\* WeddingInvite::prepare_init_build_file; a missing architecture entry is a
\* panic!, not an Err
prepare_init_build_file(self, venue_path, name, arch, copy_result) ==
    IF IsNone(self.init_build) THEN Returned(Ok(<<"0">>), <<>>)
    ELSE
        LET init_build == Unwrapped(self.init_build)
            invite_path == Join(venue_path, name)
            cpu == CpuType_get(arch)
        IN  IF Locked(init_build.build_lock) THEN Returned(Ok(<<"0">>), <<>>)
            ELSE IF cpu.status = "panic" THEN Returned(cpu, <<>>)
            ELSE
                LET cpu_type == CpuType_to_string(cpu.value)
                IN  IF cpu_type \notin DOMAIN init_build.build_files
                    THEN Returned(Panic(<<"No build file for CPU type: ", cpu_type>>), <<>>)
                    ELSE
                        LET build_path ==
                                Join(invite_path, init_build.build_files[cpu_type])
                            build_root_path ==
                                Join(Join(invite_path, init_build.build_root),
                                     <<"Dockerfile">>)
                        IN  Returned(copy_result, <<CopyCall(build_path, build_root_path)>>)

\* a slip: the lock of the top-level build target also stops the removal
delete_init_build_file_top_lock(self, venue_path, name, remove_result) ==
    IF IsNone(self.init_build) \/ Locked(self.build_lock) THEN Returned(Ok(<<>>), <<>>)
    ELSE
        LET init_build == Unwrapped(self.init_build)
            invite_path == Join(venue_path, name)
            build_root_path ==
                Join(Join(invite_path, init_build.build_root), <<"Dockerfile">>)
        IN  IF Locked(init_build.build_lock) THEN Returned(Ok(<<>>), <<>>)
            ELSE Returned(remove_result, <<RemoveCall(build_root_path)>>)

\* WeddingInvite::delete_init_build_file
delete_init_build_file(self, venue_path, name, remove_result) ==
    IF IsNone(self.init_build) THEN Returned(Ok(<<>>), <<>>)
    ELSE
        LET init_build == Unwrapped(self.init_build)
            invite_path == Join(venue_path, name)
            build_root_path ==
                Join(Join(invite_path, init_build.build_root), <<"Dockerfile">>)
        IN  IF Locked(init_build.build_lock) THEN Returned(Ok(<<>>), <<>>)
            ELSE Returned(remove_result, <<RemoveCall(build_root_path)>>)

---------------------------------------------------------------------------
(* Inputs of the installer *)

\* ARCH values: the twelve that CpuType::get knows, two of them with build
\* files in the manifests, and two that it does not know
HostArchs ==
    {"x86", "x86_64", "arm", "aarch64", "m68k", "mips", "mips64", "powerpc",
     "powerpc64", "riscv64", "s390x", "sparc64", "loongarch64", "wasm32"}

VenuePaths == { <<"v">>, <<".", SEP, "v", SEP>>, <<SEP, "w", SEP, "v">> }

Names == { <<"a">>, <<"b">> }

FileX86 == <<"build", SEP, "Dockerfile.x86_64">>

FileArm == <<"build", SEP, "Dockerfile.aarch64">>

BuildFilesMaps ==
    { [k \in {} |-> <<>>],
      [k \in {"x86_64"} |-> FileX86],
      [k \in {"aarch64"} |-> FileArm],
      [k \in {"x86_64", "aarch64"} |-> IF k = "x86_64" THEN FileX86 ELSE FileArm] }

BuildLocks == { None, Some(TRUE), Some(FALSE) }

BuildRoots == { <<".">>, <<"r">> }

InitBuilds ==
    { [build_files |-> m, build_root |-> <<"database">>, build_lock |-> l] :
        m \in { [k \in {"x86_64"} |-> <<"database", SEP, "Dockerfile.init">>],
                [k \in {"x86_64", "aarch64"} |->
                    IF k = "x86_64" THEN <<"database", SEP, "Dockerfile.init">>
                    ELSE <<"database", SEP, "Dockerfile.init.arm">>] },
        l \in BuildLocks }

InstallerInvites ==
    { [build_files |-> bf, build_root |-> br, init_build |-> ib,
       runner_files |-> << <<"base.yml">> >>, remote_runner_files |-> None,
       build_lock |-> bl] :
        bf \in {None} \cup { Some(m) : m \in BuildFilesMaps },
        br \in BuildRoots,
        ib \in {None} \cup { Some(i) : i \in InitBuilds },
        bl \in BuildLocks }

CopyResults == { Ok(<<"120">>), Err(<<"copy failed">>) }

RemoveResults == { Ok(<<>>), Err(<<"remove failed">>) }

NoPlan == [attendees |-> <<>>, venue |-> <<>>]

NotRun == [op |-> "none"]

NotInstalling == [pc |-> "idle"]

NotDraining == [pc |-> "idle"]

---------------------------------------------------------------------------
(* The installer operations, each applied once to every manifest *)

InitInstaller ==
    /\ run_log = <<>>
    /\ hostArch \in HostArchs
    /\ seating_plan = NoPlan
    /\ dirs = {}
    /\ invite_files = <<>>
    /\ last = NotRun
    /\ install = NotInstalling
    /\ drain = NotDraining

PrepareBuildFile ==
    /\ last = NotRun
    /\ \E self \in InstallerInvites, venue_path \in VenuePaths, name \in Names,
          copy_result \in CopyResults :
           LET r == prepare_build_file(self, venue_path, name, hostArch, copy_result)
           IN  /\ last' = [op |-> "prepare_build_file", self |-> self,
                           venue_path |-> venue_path, name |-> name,
                           handle_result |-> copy_result,
                           status |-> r.status, value |-> r.value,
                           file_calls |-> r.file_calls]
               /\ UNCHANGED <<hostArch, seating_plan, dirs, invite_files, run_log, install, drain>>

DeleteBuildFile ==
    /\ last = NotRun
    /\ \E self \in InstallerInvites, venue_path \in VenuePaths, name \in Names,
          remove_result \in RemoveResults :
           LET r == delete_build_file(self, venue_path, name, remove_result)
           IN  /\ last' = [op |-> "delete_build_file", self |-> self,
                           venue_path |-> venue_path, name |-> name,
                           handle_result |-> remove_result,
                           status |-> r.status, value |-> r.value,
                           file_calls |-> r.file_calls]
               /\ UNCHANGED <<hostArch, seating_plan, dirs, invite_files, run_log, install, drain>>

PrepareInitBuildFile ==
    /\ last = NotRun
    /\ \E self \in InstallerInvites, venue_path \in VenuePaths, name \in Names,
          copy_result \in CopyResults :
           LET r == prepare_init_build_file(self, venue_path, name, hostArch, copy_result)
           IN  /\ last' = [op |-> "prepare_init_build_file", self |-> self,
                           venue_path |-> venue_path, name |-> name,
                           handle_result |-> copy_result,
                           status |-> r.status, value |-> r.value,
                           file_calls |-> r.file_calls]
               /\ UNCHANGED <<hostArch, seating_plan, dirs, invite_files, run_log, install, drain>>

DeleteInitBuildFile ==
    /\ last = NotRun
    /\ \E self \in InstallerInvites, venue_path \in VenuePaths, name \in Names,
          remove_result \in RemoveResults :
           LET r == delete_init_build_file(self, venue_path, name, remove_result)
           IN  /\ last' = [op |-> "delete_init_build_file", self |-> self,
                           venue_path |-> venue_path, name |-> name,
                           handle_result |-> remove_result,
                           status |-> r.status, value |-> r.value,
                           file_calls |-> r.file_calls]
               /\ UNCHANGED <<hostArch, seating_plan, dirs, invite_files, run_log, install, drain>>

\* CpuType::get().to_string() on this host
ResolveCpuType ==
    LET cpu == CpuType_get(hostArch)
    IN  /\ last = NotRun
        /\ last' = [op |-> "CpuType_get", status |-> cpu.status, value |-> cpu.value,
                    key |-> IF cpu.status = "ok"
                            THEN Some(CpuType_to_string(cpu.value)) ELSE None]
        /\ UNCHANGED <<hostArch, seating_plan, dirs, invite_files, run_log, install, drain>>

NextInstaller ==
    \/ ResolveCpuType
    \/ PrepareBuildFile
    \/ DeleteBuildFile
    \/ PrepareInitBuildFile
    \/ DeleteInitBuildFile

SpecInstaller == InitInstaller /\ [][NextInstaller]_vars

---------------------------------------------------------------------------
(* wedding_invite.rs, dependency.rs: loading a manifest and its compose flags *)

\* format!("-f {}/{} ", &invite_path, file)
ComposeFlag(invite_path, file) == <<"-f ">> \o invite_path \o <<SEP>> \o file \o <<" ">>

\* the loop of get_docker_compose_files / get_remote_compose_files
PushFlags(invite_path, files) ==
    Flatten([i \in 1..Len(files) |-> ComposeFlag(invite_path, files[i])])

get_docker_compose_files(self, venue_path, name) ==
    LET invite_path == Join(venue_path, name)
    IN  Ok(PushFlags(invite_path, self.runner_files))

\* a slip: an absent remote list is read as an empty one
get_remote_compose_files_or_empty(self, venue_path, name) ==
    LET invite_path == Join(venue_path, name)
    IN  IF IsNone(self.remote_runner_files)
        THEN Ok(<<>>)
        ELSE Ok(PushFlags(invite_path, Unwrapped(self.remote_runner_files)))

get_remote_compose_files(self, venue_path, name) ==
    LET invite_path == Join(venue_path, name)
    IN  IF IsNone(self.remote_runner_files)
        THEN Panic(<<"called Option::unwrap() on a None value">>)
        ELSE Ok(PushFlags(invite_path, Unwrapped(self.remote_runner_files)))

\* the content of a file that exists and that File::open cannot open
Unopenable == <<"permission", "denied">>

\* WeddingInvite::from_file on a file that exists: it cannot be opened, or
\* the YAML decodes or not
WeddingInvite_from_file(path) ==
    LET yaml == invite_files[Resolve(path)]
    IN  IF Len(yaml) = Len(Unopenable)
        THEN Err(<<"Could not open file: ">> \o Unopenable)
        ELSE IF IsNone(yaml)
        THEN Err(<<"Could not read values: ", "invalid YAML">>)
        ELSE Ok(Unwrapped(yaml))

\* a slip: the loaded manifest is unwrapped instead of matched
get_wedding_invite_unwrapping(dependency, venue_path) ==
    LET invite_path == Join(Join(venue_path, dependency.name), <<"wedding_invite.yml">>)
    IN  IF Resolve(invite_path) \notin DOMAIN invite_files
        THEN Err(invite_path \o <<" does not exist">>)
        ELSE
            LET loaded == WeddingInvite_from_file(invite_path)
            IN  IF loaded.status = "err" THEN Panic(loaded.value) ELSE loaded

get_wedding_invite(dependency, venue_path) ==
    LET invite_path == Join(Join(venue_path, dependency.name), <<"wedding_invite.yml">>)
    IN  IF Resolve(invite_path) \notin DOMAIN invite_files
        THEN Err(invite_path \o <<" does not exist">>)
        ELSE
            LET loaded == WeddingInvite_from_file(invite_path)
            IN  IF loaded.status = "err"
                THEN Err(<<"Could not read values: ">> \o loaded.value)
                ELSE loaded

---------------------------------------------------------------------------
(* runner.rs: the compose command assembler and the facade *)

\* a slip: each attendee's flags are put in front of the ones gathered so far
get_compose_file_command_prepending(plan, remote) ==
    LET venue == plan.venue
        RECURSIVE Loop(_, _)
        Loop(i, flags) ==
            IF i > Len(plan.attendees) THEN Ok(<<"docker-compose ">> \o flags)
            ELSE
                LET dependency == plan.attendees[i]
                    wedding_invite == get_wedding_invite(dependency, venue)
                IN  IF wedding_invite.status = "err" THEN Panic(wedding_invite.value)
                    ELSE
                        LET files ==
                                IF remote
                                THEN get_remote_compose_files(
                                         wedding_invite.value, venue, dependency.name)
                                ELSE get_docker_compose_files(
                                         wedding_invite.value, venue, dependency.name)
                        IN  IF files.status = "panic" THEN files
                            ELSE Loop(i + 1, files.value \o flags)
    IN  Loop(1, <<>>)

\* a slip: an attendee whose invite does not load is passed over
get_compose_file_command_skipping(plan, remote) ==
    LET venue == plan.venue
        RECURSIVE Loop(_, _)
        Loop(i, command_string) ==
            IF i > Len(plan.attendees) THEN Ok(command_string)
            ELSE
                LET dependency == plan.attendees[i]
                    wedding_invite == get_wedding_invite(dependency, venue)
                IN  IF wedding_invite.status = "err" THEN Loop(i + 1, command_string)
                    ELSE
                        LET files ==
                                IF remote
                                THEN get_remote_compose_files(
                                         wedding_invite.value, venue, dependency.name)
                                ELSE get_docker_compose_files(
                                         wedding_invite.value, venue, dependency.name)
                        IN  IF files.status = "panic" THEN files
                            ELSE Loop(i + 1, command_string \o files.value)
    IN  Loop(1, <<"docker-compose ">>)

\* Runner::get_compose_file_command; both unwraps panic
get_compose_file_command(plan, remote) ==
    LET venue == plan.venue
        RECURSIVE Loop(_, _)
        Loop(i, command_string) ==
            IF i > Len(plan.attendees) THEN Ok(command_string)
            ELSE
                LET dependency == plan.attendees[i]
                    wedding_invite == get_wedding_invite(dependency, venue)
                IN  IF wedding_invite.status = "err" THEN Panic(wedding_invite.value)
                    ELSE
                        LET files ==
                                IF remote
                                THEN get_remote_compose_files(
                                         wedding_invite.value, venue, dependency.name)
                                ELSE get_docker_compose_files(
                                         wedding_invite.value, venue, dependency.name)
                        IN  IF files.status = "panic" THEN files
                            ELSE Loop(i + 1, command_string \o files.value)
    IN  Loop(1, <<"docker-compose ">>)

\* a slip: a spawn that failed is tried once more before giving up
run_docker_command_retrying(command, error_message, command_string, spawned) ==
    LET pushed == command_string \o <<command>>
    IN  IF spawned
        THEN [status |-> "ok", value |-> pushed, docker_calls |-> <<pushed>>]
        ELSE [status |-> "panic", value |-> <<error_message>>,
              docker_calls |-> <<pushed, pushed>>]

\* CommandRunner::run_docker_command up to the spawn: the sub-command is
\* pushed onto the buffer, bash is spawned with it, a failed spawn panics
\* with error_message
run_docker_command(command, error_message, command_string, spawned) ==
    LET pushed == command_string \o <<command>>
    IN  IF spawned
        THEN [status |-> "ok", value |-> pushed, docker_calls |-> <<pushed>>]
        ELSE [status |-> "panic", value |-> <<error_message>>, docker_calls |-> <<pushed>>]

\* a slip: a remote facade method assembles the local compose files
facade_always_local(remote, command, error_message, spawned) ==
    LET command_string == get_compose_file_command(seating_plan, FALSE)
    IN  IF command_string.status = "panic"
        THEN [status |-> "panic", value |-> command_string.value, docker_calls |-> <<>>]
        ELSE run_docker_command(command, error_message, command_string.value, spawned)

\* the body shared by the seven facade methods of Runner
facade(remote, command, error_message, spawned) ==
    LET command_string == get_compose_file_command(seating_plan, remote)
    IN  IF command_string.status = "panic"
        THEN [status |-> "panic", value |-> command_string.value, docker_calls |-> <<>>]
        ELSE run_docker_command(command, error_message, command_string.value, spawned)

---------------------------------------------------------------------------
(* Inputs of the assembler: seating plans and the manifests on disk *)

MaxAttendees == 2

DepA == [name |-> <<"a">>, url |-> <<"https:", SEP, SEP, "h", SEP, "a", ".git">>,
         branch |-> <<"main">>]

DepB == [name |-> <<"b">>, url |-> <<"https:", SEP, SEP, "h", SEP, "b", ".git">>,
         branch |-> <<"dev">>]

Dependencies == {DepA, DepB}

PlanVenues == { <<".", SEP, "venue">>, <<".", SEP, "sandbox", SEP, "services", SEP>> }

SeatingPlans ==
    { [attendees |-> att, venue |-> v] :
        att \in UNION { [1..n -> Dependencies] : n \in 0..MaxAttendees },
        v \in PlanVenues }

Invite(runner_files, remote_runner_files) ==
    [build_files |-> None, build_root |-> <<".">>, init_build |-> None,
     runner_files |-> runner_files, remote_runner_files |-> remote_runner_files,
     build_lock |-> None]

DiskInvites ==
    { Invite(<< <<"compose", SEP, "base.yml">>, <<"compose", SEP, "database.yml">> >>,
             Some(<< <<"compose", SEP, "remote.yml">> >>)),
      Invite(<< <<"compose", SEP, "base.yml">> >>, None),
      Invite(<<>>, Some(<<>>)) }

\* wedding_invite.yml of a repository: absent, unparsable, or a manifest
InviteFileStates ==
    { [exists |-> FALSE], [exists |-> TRUE, yaml |-> None],
      [exists |-> TRUE, yaml |-> Unopenable] }
        \cup { [exists |-> TRUE, yaml |-> Some(inv)] : inv \in DiskInvites }

InviteFilePath(venue, name) ==
    Resolve(Join(Join(venue, name), <<"wedding_invite.yml">>))

\* the disk on which the repository called n holds the invite file st[n]
DiskOf(venue, st) ==
    LET present == { n \in DOMAIN st : st[n].exists }
    IN  [p \in { InviteFilePath(venue, n) : n \in present } |->
            st[CHOOSE n \in present : InviteFilePath(venue, n) = p].yaml]

DirsOf(venue, st) ==
    UNION { Prefixes(Resolve(Join(venue, n))) : n \in { m \in DOMAIN st : st[m].exists } }

InitAssembler ==
    /\ run_log = <<>>
    /\ hostArch = "x86_64"
    /\ seating_plan \in SeatingPlans
    /\ \E st \in [{ d.name : d \in Dependencies } -> InviteFileStates] :
          /\ invite_files = DiskOf(seating_plan.venue, st)
          /\ dirs = DirsOf(seating_plan.venue, st)
    /\ last = NotRun
    /\ install = NotInstalling
    /\ drain = NotDraining

Assembled(op, remote, r) ==
    [op |-> op, remote |-> remote, status |-> r.status, value |-> r.value,
     docker_calls |-> r.docker_calls]

GetComposeFileCommand ==
    \E remote \in BOOLEAN :
        LET r == get_compose_file_command(seating_plan, remote)
        IN  /\ last = NotRun
            /\ last' = [op |-> "get_compose_file_command", remote |-> remote,
                        status |-> r.status, value |-> r.value, docker_calls |-> <<>>]
            /\ UNCHANGED <<hostArch, seating_plan, dirs, invite_files, run_log, install, drain>>

\* Dependency::get_wedding_invite, with the venue as the plan spells it or
\* joined to the working directory
GetWeddingInvite ==
    /\ last = NotRun
    /\ \E self \in Dependencies,
          venue_path \in {seating_plan.venue, Join(Cwd, seating_plan.venue)} :
           LET r == get_wedding_invite(self, venue_path)
           IN  last' = [op |-> "get_wedding_invite", self |-> self,
                        venue_path |-> venue_path, status |-> r.status,
                        value |-> r.value]
    /\ UNCHANGED <<hostArch, seating_plan, dirs, invite_files, run_log, install, drain>>

TeardownDependencies ==
    \E spawned \in BOOLEAN :
        /\ last = NotRun
        /\ last' = Assembled("teardown_dependencies", FALSE,
                           facade(FALSE, " down", "failed to tear down", spawned))
        /\ UNCHANGED <<hostArch, seating_plan, dirs, invite_files, run_log, install, drain>>

TeardownRemoteDependencies ==
    \E spawned \in BOOLEAN :
        /\ last = NotRun
        /\ last' = Assembled("teardown_remote_dependencies", TRUE,
                           facade(TRUE, " down", "failed to tear down", spawned))
        /\ UNCHANGED <<hostArch, seating_plan, dirs, invite_files, run_log, install, drain>>

BuildDependencies ==
    \E spawned \in BOOLEAN :
        /\ last = NotRun
        /\ last' = Assembled("build_dependencies", FALSE,
                           facade(FALSE, " build", "failed to build", spawned))
        /\ UNCHANGED <<hostArch, seating_plan, dirs, invite_files, run_log, install, drain>>

RunDependencies ==
    \E spawned \in BOOLEAN :
        /\ last = NotRun
        /\ last' = Assembled("run_dependencies", FALSE,
                           facade(FALSE, " up", "failed to run", spawned))
        /\ UNCHANGED <<hostArch, seating_plan, dirs, invite_files, run_log, install, drain>>

RunDependenciesBackground ==
    \E spawned \in BOOLEAN :
        /\ last = NotRun
        /\ last' = Assembled("run_dependencies_background", FALSE,
                           facade(FALSE, " up -d", "failed to run", spawned))
        /\ UNCHANGED <<hostArch, seating_plan, dirs, invite_files, run_log, install, drain>>

RunRemoteDependencies ==
    \E spawned \in BOOLEAN :
        /\ last = NotRun
        /\ last' = Assembled("run_remote_dependencies", TRUE,
                           facade(TRUE, " up", "failed to run", spawned))
        /\ UNCHANGED <<hostArch, seating_plan, dirs, invite_files, run_log, install, drain>>

RunRemoteDependenciesBackground ==
    \E spawned \in BOOLEAN :
        /\ last = NotRun
        /\ last' = Assembled("run_remote_dependencies_background", TRUE,
                           facade(TRUE, " up -d", "failed to run", spawned))
        /\ UNCHANGED <<hostArch, seating_plan, dirs, invite_files, run_log, install, drain>>

NextAssembler ==
    \/ GetComposeFileCommand
    \/ GetWeddingInvite
    \/ TeardownDependencies
    \/ TeardownRemoteDependencies
    \/ BuildDependencies
    \/ RunDependencies
    \/ RunDependenciesBackground
    \/ RunRemoteDependencies
    \/ RunRemoteDependenciesBackground

SpecAssembler == InitAssembler /\ [][NextAssembler]_vars

---------------------------------------------------------------------------
(* dress_rehearsal.rs: the commands run from the repository under           *)
(* development, whose own invite (the local invite) sits in                  *)
(* working_directory beside the attendees of the seating plan.               *)

\* the loop of DressRehearsal::get_compose_file_command:
\* format!("-f {}/{} ", self.working_directory, file) per file
PushLocalFlags(command_string, working_directory, files) ==
    IF command_string.status = "panic" THEN command_string
    ELSE Ok(command_string.value
              \o Flatten([i \in 1..Len(files) |->
                    <<"-f ">> \o working_directory \o <<SEP>> \o files[i] \o <<" ">>]))

\* a slip: with remote set, the local invite contributes its remote files too
DressRehearsal_get_compose_file_command_all_remote(plan, wedding_invite, working_directory, remote) ==
    PushLocalFlags(get_compose_file_command(plan, remote), working_directory,
                   IF remote /\ IsSome(wedding_invite.remote_runner_files)
                   THEN Unwrapped(wedding_invite.remote_runner_files)
                   ELSE wedding_invite.runner_files)

\* DressRehearsal::get_compose_file_command: the Runner's string, then the
\* flags of the local runner files
DressRehearsal_get_compose_file_command(plan, wedding_invite, working_directory, remote) ==
    PushLocalFlags(get_compose_file_command(plan, remote), working_directory,
                   wedding_invite.runner_files)

\* a facade method once its command string is assembled: an assembly that
\* panicked unwinds, otherwise the sub-command is run
RunAssembled(command_string, command, error_message, spawned) ==
    IF command_string.status = "panic"
    THEN [status |-> "panic", value |-> command_string.value, docker_calls |-> <<>>]
    ELSE run_docker_command(command, error_message, command_string.value, spawned)

\* the body shared by the facade methods of DressRehearsal
DressRehearsal_facade(wedding_invite, working_directory, remote, command, error_message, spawned) ==
    RunAssembled(DressRehearsal_get_compose_file_command(
                     seating_plan, wedding_invite, working_directory, remote),
                 command, error_message, spawned)

\* a call of an installer operation on a manifest
InstallerCall(fn, self) == [fn |-> fn, self |-> self]

\* what a command of the factory did: the installer operations it called,
\* the file-handle calls those made, and the docker-compose commands
Dressed(status, value, installer_calls, file_calls, docker_calls) ==
    [status |-> status, value |-> value, installer_calls |-> installer_calls,
     file_calls |-> file_calls, docker_calls |-> docker_calls]

\* the facade method a command of the factory ends in: which compose set,
\* which sub-command, which message if bash cannot be spawned
DressFacadeOf(command) ==
    CASE command = "dressbuild" ->
            [remote |-> FALSE, command |-> " build --no-cache",
             error_message |-> "failed to build"]
      [] command = "dressremotebuild" ->
            [remote |-> TRUE, command |-> " build --no-cache",
             error_message |-> "failed to build remote dependencies"]
      [] command = "dressrun" ->
            [remote |-> FALSE, command |-> " up", error_message |-> "failed to run"]
      [] command = "dressrun-d" ->
            [remote |-> FALSE, command |-> " up -d", error_message |-> "failed to run"]
      [] command = "dressremoterun" ->
            [remote |-> TRUE, command |-> " up", error_message |-> "failed to run"]
      [] command = "dressremoterun-d" ->
            [remote |-> TRUE, command |-> " up -d", error_message |-> "failed to run"]
      [] command = "dressteardown" ->
            [remote |-> FALSE, command |-> " down",
             error_message |-> "failed to tear down"]
      [] command = "dressremoteteardown" ->
            [remote |-> TRUE, command |-> " down",
             error_message |-> "failed to tear down"]

\* the outcome of the two prepare calls: a panic of the first unwinds
\* before the second is made
Prepared(build, init, wedding_invite) ==
    IF build.status = "panic"
    THEN Dressed("panic", build.value,
                 <<InstallerCall("prepare_build_file", wedding_invite)>>,
                 build.file_calls, <<>>)
    ELSE Dressed(init.status, init.value,
                 <<InstallerCall("prepare_build_file", wedding_invite),
                   InstallerCall("prepare_init_build_file", wedding_invite)>>,
                 build.file_calls \o init.file_calls, <<>>)

\* dress_rehearsal.rs:27-42, 47-62: both build files of the local invite are
\* prepared and their results printed; a panic unwinds out of the factory
dress_prepare(wedding_invite, working_directory, handle) ==
    Prepared(prepare_build_file(wedding_invite, working_directory, <<>>, hostArch,
                                handle.first),
             prepare_init_build_file(wedding_invite, working_directory, <<>>, hostArch,
                                     handle.second),
             wedding_invite)

\* dress_rehearsal.rs:88-103: both build files of the local invite are deleted
dress_delete(wedding_invite, working_directory, handle) ==
    Dressed("ok", <<>>,
            <<InstallerCall("delete_build_file", wedding_invite),
              InstallerCall("delete_init_build_file", wedding_invite)>>,
            delete_build_file(wedding_invite, working_directory, <<>>,
                              handle.first).file_calls
                \o delete_init_build_file(wedding_invite, working_directory, <<>>,
                                          handle.second).file_calls,
            <<>>)

NothingDone == Dressed("ok", <<>>, <<>>, <<>>, <<>>)

\* a command of the factory: what came before the facade method, the facade
\* method, and what came after it; a panic unwinds out of the factory
Sequenced(before, ran, after) ==
    IF before.status = "panic" THEN before
    ELSE IF ran.status = "panic"
    THEN Dressed("panic", ran.value, before.installer_calls, before.file_calls,
                 ran.docker_calls)
    ELSE Dressed(ran.status, ran.value,
                 before.installer_calls \o after.installer_calls,
                 before.file_calls \o after.file_calls, ran.docker_calls)

\* the arms of the factory on a local invite that loaded: the build commands
\* prepare the local build files and then run the facade, the remote
\* teardown runs the facade and then deletes them, the others only run it
dress_command(command, wedding_invite, working_directory, method, handle, spawned) ==
    Sequenced(IF command \in {"dressbuild", "dressremotebuild"}
              THEN dress_prepare(wedding_invite, working_directory, handle)
              ELSE NothingDone,
              DressRehearsal_facade(wedding_invite, working_directory, method.remote,
                                    method.command, method.error_message, spawned),
              IF command = "dressremoteteardown"
              THEN dress_delete(wedding_invite, working_directory, handle)
              ELSE NothingDone)

\* dress_rehearsal_factory: `loaded` is what WeddingInvite::from_file made of
\* the local invite; an invite that does not load is reported and nothing runs
dress_rehearsal_factory(command, loaded, working_directory, handle, spawned) ==
    IF loaded.status = "err" THEN Dressed("err", loaded.value, <<>>, <<>>, <<>>)
    ELSE dress_command(command, loaded.value, working_directory,
                       DressFacadeOf(command), handle, spawned)

(* Inputs of the dress rehearsal *)

DressCommands ==
    {"dressbuild", "dressremotebuild", "dressrun", "dressrun-d", "dressremoterun",
     "dressremoterun-d", "dressteardown", "dressremoteteardown"}

LocalInvite(build_files, build_lock, init_build, runner_files, remote_runner_files) ==
    [build_files |-> build_files, build_root |-> <<".">>, init_build |-> init_build,
     runner_files |-> runner_files, remote_runner_files |-> remote_runner_files,
     build_lock |-> build_lock]

LocalRunnerFiles == << <<"docker-compose.yml">>, <<"compose", SEP, "local.yml">> >>

\* the invites of the repository under development: with and without build
\* files, locked and not, with and without an init build
LocalInvites ==
    { LocalInvite(Some([k \in {"x86_64"} |-> FileX86]), None, None,
                  LocalRunnerFiles, Some(<< <<"compose", SEP, "remote.yml">> >>)),
      LocalInvite(Some([k \in {"x86_64"} |-> FileX86]), Some(TRUE),
                  Some([build_files |-> [k \in {"x86_64"} |->
                                            <<"database", SEP, "Dockerfile.init">>],
                        build_root |-> <<"database">>, build_lock |-> None]),
                  << <<"docker-compose.yml">> >>, None),
      LocalInvite(None, None, None, LocalRunnerFiles, None),
      LocalInvite(None, Some(TRUE), None, <<>>, None) }

\* what from_file makes of the local invite file
LocalLoads ==
    { Err(<<"Could not open file: ">> \o Unopenable) }
        \cup { Ok(inv) : inv \in LocalInvites }

WorkingDirectories == { <<".">>, <<SEP, "w", SEP, "app">> }

\* the results the file handle gives the first and the second installer call
HandleResults ==
    { [first |-> a, second |-> b] :
        a \in { Ok(<<"120">>), Err(<<"file handle failed">>) },
        b \in { Ok(<<"120">>), Err(<<"file handle failed">>) } }

\* the seating plans of the repository under development
DressPlans == { plan \in SeatingPlans : plan.venue = <<".", SEP, "venue">> }

InitDress ==
    /\ run_log = <<>>
    /\ hostArch \in {"x86_64", "aarch64"}
    /\ seating_plan \in DressPlans
    /\ \E st \in [{ d.name : d \in Dependencies } -> InviteFileStates] :
          /\ invite_files = DiskOf(seating_plan.venue, st)
          /\ dirs = DirsOf(seating_plan.venue, st)
    /\ last = NotRun
    /\ install = NotInstalling
    /\ drain = NotDraining

DressGetComposeFileCommand ==
    /\ last = NotRun
    /\ \E wedding_invite \in LocalInvites, working_directory \in WorkingDirectories,
          remote \in BOOLEAN :
           last' = [op |-> "DressRehearsal_get_compose_file_command",
                    wedding_invite |-> wedding_invite,
                    working_directory |-> working_directory, remote |-> remote]
                   @@ DressRehearsal_get_compose_file_command(
                          seating_plan, wedding_invite, working_directory, remote)
    /\ UNCHANGED <<hostArch, seating_plan, dirs, invite_files, run_log, install, drain>>

DressRehearsalFactory ==
    /\ last = NotRun
    /\ \E command \in DressCommands, loaded \in LocalLoads,
          working_directory \in WorkingDirectories, handle \in HandleResults,
          spawned \in BOOLEAN :
           last' = [op |-> "dress_rehearsal_factory", command |-> command,
                    loaded |-> loaded, working_directory |-> working_directory]
                   @@ dress_rehearsal_factory(command, loaded, working_directory,
                                              handle, spawned)
    /\ UNCHANGED <<hostArch, seating_plan, dirs, invite_files, run_log, install, drain>>

NextDress ==
    \/ DressGetComposeFileCommand
    \/ DressRehearsalFactory

SpecDress == InitDress /\ [][NextDress]_vars

---------------------------------------------------------------------------
(* commands, dependency.rs, seating_plan.rs, file_handler.rs: the dependency *)
(* and venue lifecycle.  `outcome` is what happens to the shell command:     *)
(* the process is not spawned, or it runs and exits with a status.           *)

RunOutcomes == {"spawn_err", "exit_nonzero", "exit_zero"}

\* Path::is_dir and Path::exists: a regular file exists and is no directory
is_dir(path) == Resolve(path) \in dirs

exists(path) == Resolve(path) \in dirs \cup DOMAIN invite_files

\* CommandRunner::run: Command::output() is Err only when the process could
\* not be spawned; an exit status, zero or not, comes back inside Ok(Output)
CommandRunner_run(command, outcome) ==
    IF outcome = "spawn_err" THEN Err(<<"spawn failed">>)
    ELSE IF outcome = "exit_zero" THEN Ok(<<"exit status: ", "0">>)
    ELSE Ok(<<"exit status: ", "1">>)

CloneRepoCommand_run(repo_url, path_to_repo, outcome) ==
    LET clone_cmd == <<"cd ">> \o path_to_repo \o <<" && git clone ">> \o repo_url
    IN  [result |-> CommandRunner_run(clone_cmd, outcome), run_calls |-> <<clone_cmd>>]

\* a slip: the existence check is left out and every call clones
clone_github_repo_always(self, venue_path, outcome) ==
    LET ran == CloneRepoCommand_run(self.url, venue_path, outcome)
    IN  IF ran.result.status = "ok"
        THEN [status |-> "ok", value |-> <<>>, run_calls |-> ran.run_calls]
        ELSE [status |-> "err", value |-> ran.result.value, run_calls |-> ran.run_calls]

clone_github_repo(self, venue_path, outcome) ==
    LET repo_path == Join(venue_path, self.name)
    IN  IF exists(repo_path)
        THEN [status |-> "ok", value |-> <<>>, run_calls |-> <<>>]
        ELSE
            LET ran == CloneRepoCommand_run(self.url, venue_path, outcome)
            IN  IF ran.result.status = "ok"
                THEN [status |-> "ok", value |-> <<>>, run_calls |-> ran.run_calls]
                ELSE [status |-> "err", value |-> ran.result.value,
                      run_calls |-> ran.run_calls]

\* a slip: the branch is checked out in the venue, not in the repository
CheckoutBranchCommand_run_in_venue(branch_name, path_to_repo, repo_name, outcome) ==
    LET checkout_cmd == <<"cd ">> \o path_to_repo \o <<" && git checkout ">> \o branch_name
    IN  [result |-> CommandRunner_run(checkout_cmd, outcome), run_calls |-> <<checkout_cmd>>]

CheckoutBranchCommand_run(branch_name, path_to_repo, repo_name, outcome) ==
    LET root_path == Join(path_to_repo, repo_name)
        checkout_cmd == <<"cd ">> \o root_path \o <<" && git checkout ">> \o branch_name
    IN  [result |-> CommandRunner_run(checkout_cmd, outcome), run_calls |-> <<checkout_cmd>>]

checkout_branch(self, venue_path, outcome) ==
    LET ran == CheckoutBranchCommand_run(self.branch, venue_path, self.name, outcome)
    IN  [status |-> ran.result.status, value |-> ran.result.value,
         run_calls |-> ran.run_calls]

\* the directory `git clone <url>` creates: the last component of the url
\* without its ".git" suffix
GitCloneDirectory(url) ==
    LET parts == Components(url)
        tail == parts[Len(parts)]
    IN  IF tail[Len(tail)] = ".git" THEN SubSeq(tail, 1, Len(tail) - 1) ELSE tail

\* what a shell command can do: `cd <dir> && ...` exits with zero only if
\* <dir> exists, and git clone only if its target does not exist yet
CanExitZero(cd_dir, must_be_absent) ==
    /\ is_dir(cd_dir)
    /\ must_be_absent \cap (dirs \cup DOMAIN invite_files) = {}

\* fs::create_dir_all: on success the path and all its parents exist; on
\* failure only the first `made` components of the path may have been made
create_dir_all(path, made) ==
    IF made = Len(Resolve(path))
    THEN [status |-> "ok", value |-> <<>>, dirs |-> dirs \cup Prefixes(Resolve(path))]
    ELSE [status |-> "err", value |-> <<"create_dir_all failed">>,
          dirs |-> dirs \cup Prefixes(SubSeq(Resolve(path), 1, made))]

\* a slip: the directory is created without looking whether it exists
create_directory_always(path, made) ==
    LET created == create_dir_all(path, made)
    IN  [status |-> created.status, value |-> created.value, dirs |-> created.dirs,
         fs_ops |-> << <<"create_dir_all">> \o path >>]

\* FileHandle::create_directory_if_not_exists
create_directory_if_not_exists(path, made) ==
    IF ~exists(path)
    THEN
        LET created == create_dir_all(path, made)
        IN  [status |-> created.status, value |-> created.value, dirs |-> created.dirs,
             fs_ops |-> << <<"create_dir_all">> \o path >>]
    ELSE [status |-> "ok", value |-> <<>>, dirs |-> dirs, fs_ops |-> <<>>]

\* SeatingPlan::create_venue with the FileHandle of file_handler.rs
create_venue(plan, made) ==
    LET venue_path == plan.venue
        r == create_directory_if_not_exists(venue_path, made)
    IN  [status |-> r.status, value |-> r.value, dirs |-> r.dirs, fs_ops |-> r.fs_ops,
         file_calls |-> << <<"create_directory_if_not_exists">> \o venue_path >>]

---------------------------------------------------------------------------
(* The lifecycle operations on a disk that they change *)

MaxOps == 3

\* a dependency whose name is not the directory its url clones into, as
\* the fixture of dependency.rs:107-109
DepC == [name |-> <<"c">>, url |-> <<"https:", SEP, SEP, "h", SEP, "planner">>,
         branch |-> <<"master">>]

LifecyclePlans == { [attendees |-> <<DepA, DepC>>, venue |-> v] : v \in PlanVenues }

\* the venue path as the tests pass it and as install_dependencies passes it
VenuePathsOf(plan) == { plan.venue, Join(Cwd, plan.venue) }

Attendees(plan) == { plan.attendees[i] : i \in 1..Len(plan.attendees) }

\* the working directory exists; the venue and the repositories may
InitialDirs(plan) ==
    { Prefixes(Resolve(<<>>)) \cup UNION { Prefixes(Resolve(Join(plan.venue, n))) : n \in ns } :
        ns \in SUBSET ({<<>>} \cup { d.name : d \in Attendees(plan) }) }

OpsDone == IF last.op = "none" THEN 0 ELSE last.seq

Init ==
    /\ run_log = <<>>
    /\ hostArch = "x86_64"
    /\ seating_plan \in LifecyclePlans
    /\ dirs \in InitialDirs(seating_plan)
    /\ invite_files = <<>>
    /\ last = NotRun
    /\ install = NotInstalling
    /\ drain = NotDraining

CloneGithubRepo ==
    \E self \in Attendees(seating_plan), venue_path \in VenuePathsOf(seating_plan),
       outcome \in RunOutcomes :
        LET r == clone_github_repo(self, venue_path, outcome)
            target == Resolve(Join(venue_path, GitCloneDirectory(self.url)))
        IN  /\ OpsDone < MaxOps
            /\ outcome = "exit_zero" => CanExitZero(venue_path, {target})
            /\ last' = [op |-> "clone_github_repo", seq |-> OpsDone + 1, self |-> self,
                        venue_path |-> venue_path, outcome |-> outcome,
                        status |-> r.status, value |-> r.value, run_calls |-> r.run_calls]
            /\ dirs' = IF r.run_calls # <<>> /\ outcome = "exit_zero"
                       THEN dirs \cup {target} ELSE dirs
            /\ run_log' = run_log \o r.run_calls
            /\ UNCHANGED <<hostArch, seating_plan, invite_files, install, drain>>

CheckoutBranch ==
    \E self \in Attendees(seating_plan), venue_path \in VenuePathsOf(seating_plan),
       outcome \in RunOutcomes :
        LET r == checkout_branch(self, venue_path, outcome)
        IN  /\ OpsDone < MaxOps
            /\ outcome = "exit_zero" => CanExitZero(Join(venue_path, self.name), {})
            /\ last' = [op |-> "checkout_branch", seq |-> OpsDone + 1, self |-> self,
                        venue_path |-> venue_path, outcome |-> outcome,
                        status |-> r.status, value |-> r.value, run_calls |-> r.run_calls]
            /\ run_log' = run_log \o r.run_calls
            /\ UNCHANGED <<hostArch, seating_plan, dirs, invite_files, install, drain>>

CreateVenue ==
    \E made \in 0..Len(Resolve(seating_plan.venue)) :
        LET r == create_venue(seating_plan, made)
        IN  /\ OpsDone < MaxOps
            /\ last' = [op |-> "create_venue", seq |-> OpsDone + 1, made |-> made,
                        status |-> r.status, value |-> r.value,
                        file_calls |-> r.file_calls, fs_ops |-> r.fs_ops]
            /\ dirs' = r.dirs
            /\ UNCHANGED <<hostArch, seating_plan, invite_files, run_log, install, drain>>

Next == CloneGithubRepo \/ CheckoutBranch \/ CreateVenue

Spec == Init /\ [][Next]_vars

---------------------------------------------------------------------------
(* runner.rs: install_dependencies, one action per step of its loop body.    *)
(* install.i is the attendee the loop is at, install.steps the calls made.   *)

IsPrefix(p, q) == Len(p) <= Len(q) /\ SubSeq(q, 1, Len(p)) = p

\* std::fs::remove_dir_all: the directory and everything below it
remove_dir_all(path) ==
    [dirs |-> { d \in dirs : ~IsPrefix(Resolve(path), d) },
     invite_files |->
        [f \in { g \in DOMAIN invite_files : ~IsPrefix(Resolve(path), g) } |->
            invite_files[f]]]

\* a slip: the branch is checked out before the repository is cloned
StepAfter_checkout_first(step) ==
    CASE step = "remove" -> "checkout"
      [] step = "checkout" -> "clone"
      [] step = "clone" -> "load"
      [] step = "load" -> "build"
      [] step = "build" -> "init_build"
      [] step = "init_build" -> "remove"

\* the statement that follows a step of the loop body when the step does
\* not leave the iteration
StepAfter(step) ==
    CASE step = "remove" -> "clone"
      [] step = "clone" -> "checkout"
      [] step = "checkout" -> "load"
      [] step = "load" -> "build"
      [] step = "build" -> "init_build"
      [] step = "init_build" -> "remove"

FirstStep == "remove"

\* let full_venue_path = Path::new(&cwd).join(&venue)
full_venue_path == Join(Cwd, seating_plan.venue)

Dependency == seating_plan.attendees[install.i]

Step(step, outcome, status, calls) ==
    [i |-> install.i, step |-> step, outcome |-> outcome, status |-> status,
     calls |-> calls]

\* the next statement of the same iteration
Proceed(entries) ==
    [install EXCEPT !.pc = StepAfter(install.pc), !.steps = @ \o entries]

\* `continue`, or the end of the loop body: the next attendee, if any
Continue(entries) ==
    IF install.i < Len(seating_plan.attendees)
    THEN [install EXCEPT !.pc = FirstStep, !.i = @ + 1, !.steps = @ \o entries,
                         !.wedding_invite = None]
    ELSE [install EXCEPT !.pc = "done", !.steps = @ \o entries]

\* a panic unwinds out of install_dependencies
Unwind(entries) == [install EXCEPT !.pc = "panicked", !.steps = @ \o entries]

(* Inputs of the install pass: the plans, and what a clone puts on disk *)

InstallPlans ==
    { [attendees |-> att, venue |-> <<".", SEP, "venue">>] :
        att \in { <<>>, <<DepA>>, <<DepA, DepB>>, <<DepC, DepA>> } }

\* a host with every build file, one with some, and one CpuType::get rejects
InstallArchs == {"x86_64", "aarch64", "loongarch64"}

InitFileX86 == <<"database", SEP, "Dockerfile.init">>

InitFileArm == <<"database", SEP, "Dockerfile.init.arm">>

Manifest(build_files, build_lock, init_build) ==
    [build_files |-> build_files, build_root |-> <<".">>, init_build |-> init_build,
     runner_files |-> << <<"base.yml">> >>, remote_runner_files |-> None,
     build_lock |-> build_lock]

InitTarget(build_files, build_lock) ==
    [build_files |-> build_files, build_root |-> <<"database">>, build_lock |-> build_lock]

\* the manifests a cloned repository may carry
RepoManifests ==
    { Manifest(Some([k \in {"x86_64", "aarch64"} |->
                        IF k = "x86_64" THEN FileX86 ELSE FileArm]), None,
               Some(InitTarget([k \in {"x86_64"} |-> InitFileX86], None))),
      Manifest(Some([k \in {"x86_64"} |-> FileX86]), Some(FALSE),
               Some(InitTarget([k \in {"x86_64", "aarch64"} |->
                                   IF k = "x86_64" THEN InitFileX86 ELSE InitFileArm],
                               Some(FALSE)))),
      Manifest(Some([k \in {"x86_64"} |-> FileX86]), Some(TRUE),
               Some(InitTarget([k \in {"x86_64"} |-> InitFileX86], Some(TRUE)))),
      Manifest(None, None, Some(InitTarget([k \in {"x86_64"} |-> InitFileX86], None))),
      Manifest(Some([k \in {"x86_64", "aarch64"} |->
                        IF k = "x86_64" THEN FileX86 ELSE FileArm]), None, None) }

\* wedding_invite.yml of a cloned repository: absent, unparsable, or a manifest
RepoContents ==
    { [exists |-> FALSE], [exists |-> TRUE, yaml |-> None] }
        \cup { [exists |-> TRUE, yaml |-> Some(m)] : m \in RepoManifests }

\* the disk after `git clone` has made the directory `target` with `content`
Cloned(target, content) ==
    [dirs |-> dirs \cup {target},
     invite_files |->
        IF content.exists
        THEN LET file == Append(target, <<"wedding_invite.yml">>)
             IN  [f \in DOMAIN invite_files \cup {file} |->
                     IF f = file THEN content.yaml ELSE invite_files[f]]
        ELSE invite_files]

\* what may lie in the venue besides directories: nothing, or a regular
\* file where the repository of an attendee would go
InitialFiles(plan, ds) ==
    { <<>> } \cup
    { [f \in {Resolve(Join(plan.venue, d.name))} |-> None] :
        d \in { a \in Attendees(plan) :
                   /\ Resolve(plan.venue) \in ds
                   /\ Resolve(Join(plan.venue, a.name)) \notin ds } }

InitInstall ==
    /\ run_log = <<>>
    /\ hostArch \in InstallArchs
    /\ seating_plan \in InstallPlans
    /\ dirs \in InitialDirs(seating_plan)
    /\ invite_files \in InitialFiles(seating_plan, dirs)
    /\ last = NotRun
    /\ install = [pc |-> "start", i |-> 0, steps |-> <<>>, wedding_invite |-> None]
    /\ drain = NotDraining

\* runner.rs:77-84: the paths are computed and the loop is entered
InstallBegin ==
    /\ install.pc = "start"
    /\ install' = IF Len(seating_plan.attendees) = 0
                  THEN [install EXCEPT !.pc = "done"]
                  ELSE [install EXCEPT !.pc = FirstStep, !.i = 1]
    /\ UNCHANGED <<hostArch, seating_plan, dirs, invite_files, run_log, last, drain>>

\* runner.rs:86-88: a directory venue/name is removed, or the unwrap panics
InstallRemove ==
    LET path == Join(seating_plan.venue, Dependency.name)
    IN  /\ install.pc = "remove"
        /\ IF is_dir(path)
           THEN \E removed \in BOOLEAN :
                   IF removed
                   THEN /\ dirs' = remove_dir_all(path).dirs
                        /\ invite_files' = remove_dir_all(path).invite_files
                        /\ install' = Proceed(<<Step("remove", "removed", "ok", <<path>>)>>)
                   ELSE /\ install' = Unwind(<<Step("remove", "io_error", "panic", <<path>>)>>)
                        /\ UNCHANGED <<dirs, invite_files>>
           ELSE /\ install' = Proceed(<<>>)
                /\ UNCHANGED <<dirs, invite_files>>
        /\ UNCHANGED <<hostArch, seating_plan, run_log, last, drain>>

\* runner.rs:90-98: clone; an Err continues with the next attendee
InstallClone ==
    \E outcome \in RunOutcomes, content \in RepoContents :
        LET r == clone_github_repo(Dependency, full_venue_path, outcome)
            target == Resolve(Join(full_venue_path, GitCloneDirectory(Dependency.url)))
            cloned == r.run_calls # <<>> /\ outcome = "exit_zero"
            entry == Step("clone", IF r.run_calls = <<>> THEN "skipped" ELSE outcome,
                          r.status, r.run_calls)
        IN  /\ install.pc = "clone"
            /\ outcome = "exit_zero" => CanExitZero(full_venue_path, {target})
            /\ r.run_calls = <<>> => outcome = "exit_nonzero"
            /\ ~cloned => content = [exists |-> FALSE]
            /\ dirs' = IF cloned THEN Cloned(target, content).dirs ELSE dirs
            /\ invite_files' = IF cloned THEN Cloned(target, content).invite_files
                               ELSE invite_files
            /\ run_log' = run_log \o r.run_calls
            /\ install' = IF r.status = "ok" THEN Proceed(<<entry>>)
                          ELSE Continue(<<entry>>)
            /\ UNCHANGED <<hostArch, seating_plan, last, drain>>

\* runner.rs:99-107: checkout; an Err continues with the next attendee
InstallCheckout ==
    \E outcome \in RunOutcomes :
        LET r == checkout_branch(Dependency, full_venue_path, outcome)
            entry == Step("checkout", outcome, r.status, r.run_calls)
        IN  /\ install.pc = "checkout"
            /\ outcome = "exit_zero"
                  => CanExitZero(Join(full_venue_path, Dependency.name), {})
            /\ run_log' = run_log \o r.run_calls
            /\ install' = IF r.status = "ok" THEN Proceed(<<entry>>)
                          ELSE Continue(<<entry>>)
            /\ UNCHANGED <<hostArch, seating_plan, dirs, invite_files, last, drain>>

\* runner.rs:108: the invite is loaded and unwrapped
InstallLoad ==
    LET r == get_wedding_invite(Dependency, full_venue_path)
    IN  /\ install.pc = "load"
        /\ install' =
              IF r.status = "err"
              THEN Unwind(<<Step("load", "load_err", "panic", <<>>)>>)
              ELSE [Proceed(<<Step("load", "loaded", "ok", <<>>)>>)
                       EXCEPT !.wedding_invite = Some(r.value)]
        /\ UNCHANGED <<hostArch, seating_plan, dirs, invite_files, run_log, last, drain>>

\* runner.rs:111-122: the arm of install_dependencies for the top-level build
\* file.  An absent build_files ends the iteration (the `continue` of line
\* 121); otherwise prepare_build_file is called unless the lock is set, and
\* its result is dropped.  `called` tells whether the installer was called.
install_build_file(wedding_invite, venue_path, name, arch, copy_result) ==
    IF IsNone(wedding_invite.build_files)
    THEN [go |-> "continue", called |-> FALSE, r |-> Returned(Ok(<<>>), <<>>)]
    ELSE IF Locked(wedding_invite.build_lock)
    THEN [go |-> "proceed", called |-> FALSE, r |-> Returned(Ok(<<>>), <<>>)]
    ELSE LET r == prepare_build_file(wedding_invite, venue_path, name, arch, copy_result)
         IN  [go |-> IF r.status = "panic" THEN "unwind" ELSE "proceed",
              called |-> TRUE, r |-> r]

\* runner.rs:124-143: the arm for the init build file: prepared unless
\* init_build is absent or locked; every arm ends the iteration
install_init_build_file(wedding_invite, venue_path, name, arch, copy_result) ==
    IF IsNone(wedding_invite.init_build)
    THEN [go |-> "continue", called |-> FALSE, r |-> Returned(Ok(<<>>), <<>>)]
    ELSE IF Locked(Unwrapped(wedding_invite.init_build).build_lock)
    THEN [go |-> "continue", called |-> FALSE, r |-> Returned(Ok(<<>>), <<>>)]
    ELSE LET r == prepare_init_build_file(wedding_invite, venue_path, name, arch,
                                          copy_result)
         IN  [go |-> IF r.status = "panic" THEN "unwind" ELSE "continue",
              called |-> TRUE, r |-> r]

\* the next position of the pass after an arm, with the steps it logged
Go(go, entries) ==
    CASE go = "proceed" -> Proceed(entries)
      [] go = "continue" -> Continue(entries)
      [] go = "unwind" -> Unwind(entries)

InstallBuild ==
    /\ install.pc = "build"
    /\ \E copy_result \in CopyResults :
           LET arm == install_build_file(Unwrapped(install.wedding_invite),
                                         full_venue_path, Dependency.name, hostArch,
                                         copy_result)
               entry == Step("build", copy_result.status, arm.r.status, arm.r.file_calls)
           IN  /\ arm.r.file_calls = <<>> => copy_result = Ok(<<"120">>)
               /\ install' = Go(arm.go, IF arm.called THEN <<entry>> ELSE <<>>)
    /\ UNCHANGED <<hostArch, seating_plan, dirs, invite_files, run_log, last, drain>>

InstallInitBuild ==
    /\ install.pc = "init_build"
    /\ \E copy_result \in CopyResults :
           LET arm == install_init_build_file(Unwrapped(install.wedding_invite),
                                              full_venue_path, Dependency.name, hostArch,
                                              copy_result)
               entry == Step("init_build", copy_result.status, arm.r.status,
                             arm.r.file_calls)
           IN  /\ arm.r.file_calls = <<>> => copy_result = Ok(<<"120">>)
               /\ install' = Go(arm.go, IF arm.called THEN <<entry>> ELSE <<>>)
    /\ UNCHANGED <<hostArch, seating_plan, dirs, invite_files, run_log, last, drain>>

NextInstall ==
    \/ InstallBegin
    \/ InstallRemove
    \/ InstallClone
    \/ InstallCheckout
    \/ InstallLoad
    \/ InstallBuild
    \/ InstallInitBuild

SpecInstall == InitInstall /\ [][NextInstall]_vars

\* a session at the command line: an install pass and, once it has ended
\* (returned or panicked), one more command on the venue it left behind
NextSession ==
    \/ NextInstall
    \/ install.pc \in {"done", "panicked"} /\ NextAssembler

SpecSession == InitInstall /\ [][NextSession]_vars

---------------------------------------------------------------------------
(* command_runner.rs: the output-draining loop of run_docker_command and    *)
(* the child process it reads from.  A pipe holds the lines the child has   *)
(* written and the loop has not read; a line is a string, the empty line    *)
(* the empty string.                                                        *)

MaxLines == 3

Streams == {"stdout", "stderr"}

EmptyLine == <<>>

\* a line that is not valid UTF-8: Lines::next yields Some(Err(_))
BadLine == <<"not UTF-8">>

\* what the child may write as its n-th line: an empty line, a line of text
\* (told apart from the other lines by n), or bytes that are not UTF-8
Lines(n) == { EmptyLine, <<"line ", ToString(n)>>, BadLine }

\* lines.next() on a pipe: Some(line), None at end of file, or the read
\* blocks while the pipe is empty and the child holds it open
CanRead(stream) == drain.pipe[stream] # <<>> \/ ~drain.open[stream]

\* command_runner.rs:117-121 and 122-126: if let Some(line) = reader.next()
\* { unwrap, println, output.push_str }
\* a slip: an empty line is added to the output and not printed
read_line_skipping_empty(stream, next_pc) ==
    IF drain.pipe[stream] = <<>>
    THEN [drain EXCEPT !.pc = next_pc]
    ELSE
        LET line == Head(drain.pipe[stream])
        IN  IF line = BadLine
            THEN [drain EXCEPT !.pc = "panicked", !.pipe[stream] = Tail(@)]
            ELSE IF line = EmptyLine
            THEN [drain EXCEPT !.pc = next_pc,
                               !.pipe[stream] = Tail(@),
                               !.read[stream] = @ + 1]
            ELSE [drain EXCEPT !.pc = next_pc,
                               !.pipe[stream] = Tail(@),
                               !.read[stream] = @ + 1,
                               !.printed = Append(@, line),
                               !.shown[stream] = Append(@, line),
                               !.output = @ \o line]

read_line(stream, next_pc) ==
    IF drain.pipe[stream] = <<>>
    THEN [drain EXCEPT !.pc = next_pc]
    ELSE
        LET line == Head(drain.pipe[stream])
        IN  IF line = BadLine
            THEN [drain EXCEPT !.pc = "panicked", !.pipe[stream] = Tail(@)]
            ELSE [drain EXCEPT !.pc = next_pc,
                               !.pipe[stream] = Tail(@),
                               !.read[stream] = @ + 1,
                               !.printed = Append(@, line),
                               !.shown[stream] = Append(@, line),
                               !.output = @ \o line]

\* the child has been spawned with both pipes open and nothing written
InitDrain ==
    /\ run_log = <<>>
    /\ hostArch = "x86_64"
    /\ seating_plan = NoPlan
    /\ dirs = {}
    /\ invite_files = <<>>
    /\ last = NotRun
    /\ install = NotInstalling
    /\ drain = [pc |-> "read_stdout",
                pipe |-> [s \in Streams |-> <<>>],
                open |-> [s \in Streams |-> TRUE],
                read |-> [s \in Streams |-> 0],
                written |-> 0,
                produced |-> [s \in Streams |-> <<>>],
                shown |-> [s \in Streams |-> <<>>],
                output |-> <<>>,
                printed |-> <<>>]

ChildWrites ==
    \E stream \in Streams, line \in Lines(drain.written + 1) :
        /\ drain.open[stream]
        /\ drain.written < MaxLines
        /\ drain' = [drain EXCEPT !.pipe[stream] = Append(@, line),
                                  !.produced[stream] = Append(@, line),
                                  !.written = @ + 1]
        /\ UNCHANGED <<hostArch, seating_plan, dirs, invite_files, run_log, last, install>>

\* the child closes a stream, or exits
ChildCloses ==
    \E closed \in (SUBSET Streams) \ {{}} :
        /\ \A stream \in closed : drain.open[stream]
        /\ drain' = [drain EXCEPT !.open = [s \in Streams |-> @[s] /\ s \notin closed]]
        /\ UNCHANGED <<hostArch, seating_plan, dirs, invite_files, run_log, last, install>>

ReadStdout ==
    /\ drain.pc = "read_stdout"
    /\ CanRead("stdout")
    /\ drain' = read_line("stdout", "read_stderr")
    /\ UNCHANGED <<hostArch, seating_plan, dirs, invite_files, run_log, last, install>>

ReadStderr ==
    /\ drain.pc = "read_stderr"
    /\ CanRead("stderr")
    /\ drain' = read_line("stderr", "test_output")
    /\ UNCHANGED <<hostArch, seating_plan, dirs, invite_files, run_log, last, install>>

\* command_runner.rs:128-132
TestOutput ==
    /\ drain.pc = "test_output"
    /\ drain' = IF drain.output = <<>>
                THEN [drain EXCEPT !.pc = "done"]
                ELSE [drain EXCEPT !.pc = "read_stdout", !.output = <<>>,
                                   !.printed = Append(@, drain.output)]
    /\ UNCHANGED <<hostArch, seating_plan, dirs, invite_files, run_log, last, install>>

DrainStep == ReadStdout \/ ReadStderr \/ TestOutput

NextDrain == ChildWrites \/ ChildCloses \/ ReadStdout \/ ReadStderr \/ TestOutput

\* the loop runs whenever it is not blocked in a read; nothing is assumed
\* of the child
SpecDrain == InitDrain /\ [][NextDrain]_vars /\ WF_vars(DrainStep)

---------------------------------------------------------------------------
(* Properties of the installer (SpecInstaller) *)

\* the literal path <a>/<b>/<c>
Slashed(a, b, c) == a \o <<SEP>> \o b \o <<SEP>> \o c

\* two strings name the same path
PathEq(p, q) == Components(p) = Components(q)

IsOp(op) == last.op = op

HostResolves == CpuType_get(hostArch).status = "ok"

ResolvedArch == CpuType_to_string(CpuType_get(hostArch).value)

\* C1: with build_lock = Some(true), prepare_build_file and delete_build_file
\* return success and make no call on the file handle, whatever build_files,
\* build_root and the host architecture are
C1_LockedIsNoOp ==
    ((IsOp("prepare_build_file") \/ IsOp("delete_build_file")) /\ Locked(last.self.build_lock))
        => (last.status = "ok" /\ last.file_calls = <<>>)

C1_Witness ==
    /\ IsOp("prepare_build_file")
    /\ Locked(last.self.build_lock)
    /\ IsSome(last.self.build_files)
    /\ ~HostResolves
    /\ last.status = "ok"

\* C2: unlocked, with build_files holding the resolved architecture,
\* prepare_build_file makes exactly one call, a copy from
\* <venue>/<name>/<build_files[arch]> to <venue>/<name>/<build_root>/Dockerfile,
\* returns what the copy returned, and never copies another key's file
C2_CopiesArchFile ==
    (/\ IsOp("prepare_build_file")
     /\ ~Locked(last.self.build_lock)
     /\ IsSome(last.self.build_files)
     /\ HostResolves
     /\ ResolvedArch \in DOMAIN Unwrapped(last.self.build_files))
        => LET files_map == Unwrapped(last.self.build_files)
               call == last.file_calls[1]
           IN  /\ Len(last.file_calls) = 1
               /\ call.op = "copy"
               /\ PathEq(call.from,
                         Slashed(last.venue_path, last.name, files_map[ResolvedArch]))
               /\ PathEq(call.to,
                         Slashed(last.venue_path, last.name,
                                 last.self.build_root \o <<SEP, "Dockerfile">>))
               /\ last.status = last.handle_result.status
               /\ last.value = last.handle_result.value
               /\ \A k \in DOMAIN files_map :
                      files_map[k] # files_map[ResolvedArch]
                          => ~PathEq(call.from,
                                     Slashed(last.venue_path, last.name, files_map[k]))

C2_Witness ==
    /\ IsOp("prepare_build_file")
    /\ last.self.build_lock = Some(FALSE)
    /\ IsSome(last.self.build_files)
    /\ DOMAIN Unwrapped(last.self.build_files) = {"x86_64", "aarch64"}
    /\ hostArch = "aarch64"
    /\ last.venue_path = <<".", SEP, "v", SEP>>
    /\ last.status = "err"
    /\ Len(last.file_calls) = 1

\* C3: unlocked, with build_files present but without the resolved
\* architecture, prepare_build_file returns an error value and makes no copy
C3_MissingArchIsError ==
    (/\ IsOp("prepare_build_file")
     /\ ~Locked(last.self.build_lock)
     /\ IsSome(last.self.build_files)
     /\ HostResolves
     /\ ResolvedArch \notin DOMAIN Unwrapped(last.self.build_files))
        => (last.status = "err" /\ last.file_calls = <<>>)

C3_Witness ==
    /\ IsOp("prepare_build_file")
    /\ IsNone(last.self.build_lock)
    /\ IsSome(last.self.build_files)
    /\ DOMAIN Unwrapped(last.self.build_files) = {"x86_64", "aarch64"}
    /\ hostArch = "sparc64"
    /\ last.status = "err"
    /\ last.file_calls = <<>>

InitBuildOf(invite) == Unwrapped(invite.init_build)

\* C11: when init_build is absent, prepare_init_build_file and
\* delete_init_build_file return success and make no call on the file
\* handle, whatever the top-level build_files and build_lock are
C11_InitAbsentIsNoOp ==
    ((IsOp("prepare_init_build_file") \/ IsOp("delete_init_build_file"))
        /\ IsNone(last.self.init_build))
        => (last.status = "ok" /\ last.file_calls = <<>>)

C11_Witness ==
    /\ IsOp("prepare_init_build_file")
    /\ IsNone(last.self.init_build)
    /\ IsSome(last.self.build_files)
    /\ last.self.build_lock = Some(FALSE)
    /\ HostResolves
    /\ ResolvedArch \in DOMAIN Unwrapped(last.self.build_files)
    /\ last.status = "ok"
    /\ last.file_calls = <<>>

\* C12: for a present, unlocked init_build, prepare_init_build_file returns
\* an error value and makes no copy when init_build.build_files has no entry
\* for the resolved architecture, and when it has one makes the one copy from
\* <venue>/<name>/<init_build.build_files[arch]> to
\* <venue>/<name>/<init_build.build_root>/Dockerfile
C12_InitMissingArchIsError ==
    (/\ IsOp("prepare_init_build_file")
     /\ IsSome(last.self.init_build)
     /\ ~Locked(InitBuildOf(last.self).build_lock)
     /\ HostResolves)
        => LET files_map == InitBuildOf(last.self).build_files
           IN  IF ResolvedArch \notin DOMAIN files_map
               THEN last.status = "err" /\ last.file_calls = <<>>
               ELSE /\ Len(last.file_calls) = 1
                    /\ last.file_calls[1].op = "copy"
                    /\ PathEq(last.file_calls[1].from,
                              Slashed(last.venue_path, last.name, files_map[ResolvedArch]))
                    /\ PathEq(last.file_calls[1].to,
                              Slashed(last.venue_path, last.name,
                                      InitBuildOf(last.self).build_root
                                          \o <<SEP, "Dockerfile">>))

\* C13: the two build targets are locked independently: the init operations
\* touch the file handle according to init_build.build_lock whatever the
\* top-level build_lock is, and the top-level operations according to the
\* top-level build_lock whatever init_build and its build_lock are
C13_LocksIndependent ==
    /\ IsOp("delete_init_build_file")
          => (last.file_calls # <<>>
                <=> (IsSome(last.self.init_build)
                        /\ ~Locked(InitBuildOf(last.self).build_lock)))
    /\ IsOp("delete_build_file")
          => (last.file_calls # <<>> <=> ~Locked(last.self.build_lock))
    /\ IsOp("prepare_init_build_file")
          => /\ (IsSome(last.self.init_build) /\ Locked(InitBuildOf(last.self).build_lock))
                    => last.file_calls = <<>>
             /\ \A bl \in BuildLocks :
                    LET r == prepare_init_build_file(
                                 [last.self EXCEPT !.build_lock = bl], last.venue_path,
                                 last.name, hostArch, last.handle_result)
                    IN  r.file_calls = last.file_calls /\ r.status = last.status
    /\ IsOp("prepare_build_file")
          => /\ Locked(last.self.build_lock) => last.file_calls = <<>>
             /\ \A ib \in {None} \cup { Some(i) : i \in InitBuilds } :
                    LET r == prepare_build_file(
                                 [last.self EXCEPT !.init_build = ib], last.venue_path,
                                 last.name, hostArch, last.handle_result)
                    IN  r.file_calls = last.file_calls /\ r.status = last.status

C13_Witness ==
    /\ IsOp("delete_init_build_file")
    /\ Locked(last.self.build_lock)
    /\ IsSome(last.self.init_build)
    /\ InitBuildOf(last.self).build_lock = Some(FALSE)
    /\ Len(last.file_calls) = 1

\* C24: on an unlocked manifest delete_build_file makes exactly one call, a
\* remove of <venue>/<name>/<build_root>/Dockerfile, with or without
\* build_files; delete_init_build_file on a present, unlocked init_build
\* makes exactly one call, a remove of
\* <venue>/<name>/<init_build.build_root>/Dockerfile
C24_DeleteRemovesOnlyDockerfile ==
    /\ (IsOp("delete_build_file") /\ ~Locked(last.self.build_lock))
          => /\ Len(last.file_calls) = 1
             /\ last.file_calls[1].op = "remove"
             /\ PathEq(last.file_calls[1].path,
                       Slashed(last.venue_path, last.name,
                               last.self.build_root \o <<SEP, "Dockerfile">>))
    /\ (/\ IsOp("delete_init_build_file")
        /\ IsSome(last.self.init_build)
        /\ ~Locked(InitBuildOf(last.self).build_lock))
          => /\ Len(last.file_calls) = 1
             /\ last.file_calls[1].op = "remove"
             /\ PathEq(last.file_calls[1].path,
                       Slashed(last.venue_path, last.name,
                               InitBuildOf(last.self).build_root
                                   \o <<SEP, "Dockerfile">>))

C24_Witness ==
    /\ IsOp("delete_build_file")
    /\ IsNone(last.self.build_files)
    /\ IsNone(last.self.build_lock)
    /\ last.self.build_root = <<"r">>
    /\ Len(last.file_calls) = 1
    /\ last.status = "err"

\* the same lock written the other way: None for Some(false) and back
Respelled(build_lock) ==
    IF build_lock = None THEN Some(FALSE)
    ELSE IF build_lock = Some(FALSE) THEN None
    ELSE build_lock

\* the manifests that differ from `self` only in how a lock that is not set
\* is written, at the top level, in init_build, or in both
LockSpellings(self) ==
    LET top == [self EXCEPT !.build_lock = Respelled(@)]
        Inner(m) ==
            IF IsNone(m.init_build) THEN m
            ELSE [m EXCEPT !.init_build =
                     Some([Unwrapped(@) EXCEPT !.build_lock = Respelled(@)])]
    IN  { top, Inner(self), Inner(top) }

\* the installer operation of that name
InstallerOp(op, self, venue_path, name, arch, handle_result) ==
    CASE op = "prepare_build_file" ->
            prepare_build_file(self, venue_path, name, arch, handle_result)
      [] op = "delete_build_file" ->
            delete_build_file(self, venue_path, name, handle_result)
      [] op = "prepare_init_build_file" ->
            prepare_init_build_file(self, venue_path, name, arch, handle_result)
      [] op = "delete_init_build_file" ->
            delete_init_build_file(self, venue_path, name, handle_result)

InstallerOps ==
    {"prepare_build_file", "delete_build_file", "prepare_init_build_file",
     "delete_init_build_file"}

\* C30: a lock written Some(false) behaves like an absent lock: writing a
\* lock that is not set the other way, at the top level or in init_build,
\* changes neither the result nor the file-handle calls of the four installer
\* operations, nor what the two build arms of install_dependencies do
C30_FalseLockIsNoLock ==
    (last.op \in InstallerOps) =>
        \A other \in LockSpellings(last.self) :
            /\ InstallerOp(last.op, other, last.venue_path, last.name, hostArch,
                           last.handle_result)
                  = [status |-> last.status, value |-> last.value,
                     file_calls |-> last.file_calls]
            /\ \A copy_result \in CopyResults :
                  /\ install_build_file(other, last.venue_path, last.name, hostArch,
                                        copy_result)
                        = install_build_file(last.self, last.venue_path, last.name,
                                             hostArch, copy_result)
                  /\ install_init_build_file(other, last.venue_path, last.name,
                                             hostArch, copy_result)
                        = install_init_build_file(last.self, last.venue_path,
                                                  last.name, hostArch, copy_result)

C30_Witness ==
    /\ IsOp("prepare_init_build_file")
    /\ last.self.build_lock = Some(FALSE)
    /\ IsSome(last.self.init_build)
    /\ InitBuildOf(last.self).build_lock = None
    /\ Len(last.file_calls) = 1
    /\ last.status = "ok"

\* the closed set of architecture identifiers
SupportedArchs ==
    {"x86", "x86_64", "arm", "aarch64", "m68k", "mips", "mips64", "powerpc",
     "powerpc64", "riscv64", "s390x", "sparc64"}

\* C19: CpuType::get yields one of the twelve architecture identifiers and
\* panics on any host architecture outside that set; on a supported host
\* the lookup key CpuType::get().to_string() is the host architecture string
C19_ResolverClosedSet ==
    IsOp("CpuType_get")
        => IF hostArch \in SupportedArchs
           THEN /\ last.status = "ok"
                /\ last.value \in CpuTypes
                /\ last.key = Some(hostArch)
                /\ Unwrapped(last.key) \in SupportedArchs
           ELSE /\ last.status = "panic"
                /\ IsNone(last.key)

C19_Witness ==
    /\ IsOp("CpuType_get")
    /\ hostArch = "aarch64"
    /\ last.value = "Aarch64"
    /\ last.key = Some("aarch64")

---------------------------------------------------------------------------
(* Properties of the assembler (SpecAssembler) *)

LocalOps ==
    {"teardown_dependencies", "build_dependencies", "run_dependencies",
     "run_dependencies_background"}

RemoteOps ==
    {"teardown_remote_dependencies", "run_remote_dependencies",
     "run_remote_dependencies_background"}

IsAssemblerOp == last.op \in {"get_compose_file_command"} \cup LocalOps \cup RemoteOps

LoadedInvite(plan, i) == get_wedding_invite(plan.attendees[i], plan.venue)

AllLoadable(plan) ==
    \A i \in 1..Len(plan.attendees) : LoadedInvite(plan, i).status = "ok"

\* the paths of the "-f <path> " fragments that follow the base token of a
\* command string, in order; anything else in the string yields a "?" entry
FragmentPaths(command_string) ==
    LET RECURSIVE Parse(_, _)
        Parse(i, acc) ==
            IF i > Len(command_string) THEN acc
            ELSE IF command_string[i] # "-f " THEN Append(acc, <<"?">>)
            ELSE
                LET ends == { j \in (i + 1)..Len(command_string) : command_string[j] = " " }
                IN  IF ends = {} THEN Append(acc, <<"?">>)
                    ELSE
                        LET j == CHOOSE e \in ends : \A f \in ends : e <= f
                        IN  Parse(j + 1, Append(acc, SubSeq(command_string, i + 1, j - 1)))
    IN  IF Len(command_string) = 0 \/ command_string[1] # "docker-compose "
        THEN << <<"?">> >>
        ELSE Parse(2, <<>>)

RECURSIVE FilesBefore(_, _)
\* the number of runner_files of the attendees before the i-th
FilesBefore(plan, i) ==
    IF i <= 1 THEN 0
    ELSE FilesBefore(plan, i - 1) + Len(LoadedInvite(plan, i - 1).value.runner_files)

\* the fragments of a plan are those of its attendees, each the block of its
\* runner_files in list order, the blocks in manifest order
OrderPreserved(plan, paths) ==
    /\ Len(paths) = FilesBefore(plan, Len(plan.attendees) + 1)
    /\ \A i \in 1..Len(plan.attendees) :
          LET files == LoadedInvite(plan, i).value.runner_files
              name == plan.attendees[i].name
          IN  \A j \in 1..Len(files) :
                 LET path == paths[FilesBefore(plan, i) + j]
                 IN  /\ PathEq(path, Slashed(plan.venue, name, files[j]))
                     /\ plan.venue[Len(plan.venue)] # SEP
                            => path = Slashed(plan.venue, name, files[j])

Swapped(plan, i, j) ==
    [plan EXCEPT !.attendees =
        [k \in 1..Len(plan.attendees) |->
            IF k = i THEN plan.attendees[j]
            ELSE IF k = j THEN plan.attendees[i]
            ELSE plan.attendees[k]]]

\* C4: when every attendee's invite loads, get_compose_file_command(false)
\* is "docker-compose " followed by one "-f <venue>/<name>/<file> " per
\* attendee in manifest order and per runner file in list order, none
\* dropped, repeated or moved; the same holds of the plan with two
\* attendees swapped, whose blocks are therefore swapped
C4_OrderPreserved ==
    (IsOp("get_compose_file_command") /\ ~last.remote /\ AllLoadable(seating_plan))
        => /\ last.status = "ok"
           /\ OrderPreserved(seating_plan, FragmentPaths(last.value))
           /\ \A i, j \in 1..Len(seating_plan.attendees) :
                  LET plan == Swapped(seating_plan, i, j)
                      swapped == get_compose_file_command(plan, FALSE)
                  IN  /\ swapped.status = "ok"
                      /\ OrderPreserved(plan, FragmentPaths(swapped.value))

C4_Witness ==
    /\ IsOp("get_compose_file_command")
    /\ ~last.remote
    /\ seating_plan.attendees = <<DepB, DepA>>
    /\ AllLoadable(seating_plan)
    /\ Len(LoadedInvite(seating_plan, 1).value.runner_files) = 1
    /\ Len(LoadedInvite(seating_plan, 2).value.runner_files) = 2
    /\ Len(FragmentPaths(last.value)) = 3
    /\ get_compose_file_command(Swapped(seating_plan, 1, 2), FALSE).value # last.value

\* an attendee whose invite loads and declares no remote_runner_files
LacksRemoteFiles(plan) ==
    \E i \in 1..Len(plan.attendees) :
        /\ LoadedInvite(plan, i).status = "ok"
        /\ IsNone(LoadedInvite(plan, i).value.remote_runner_files)

\* C5: remote assembly over a plan with an attendee whose invite has no
\* remote_runner_files fails: no command string is returned and no compose
\* command reaches the command runner
C5_RemoteFailsWithoutRemoteFiles ==
    (IsAssemblerOp /\ last.remote /\ LacksRemoteFiles(seating_plan))
        => (last.status = "panic" /\ last.docker_calls = <<>>)

C5_Witness ==
    /\ IsOp("run_remote_dependencies")
    /\ LacksRemoteFiles(seating_plan)
    /\ AllLoadable(seating_plan)
    /\ Len(seating_plan.attendees) = 2
    /\ IsSome(LoadedInvite(seating_plan, 1).value.remote_runner_files)
    /\ last.status = "panic"

\* an attendee whose invite is missing or malformed
Unloadable(plan) ==
    { i \in 1..Len(plan.attendees) : LoadedInvite(plan, i).status = "err" }

\* C6: when an attendee's invite is missing or malformed the assembly fails
\* as a whole with the load error: no command string is returned, the
\* attendee is not skipped, and no docker-compose command is run
C6_UnloadableInviteFails ==
    (IsAssemblerOp /\ Unloadable(seating_plan) # {})
        => /\ last.status = "panic"
           /\ last.docker_calls = <<>>
           /\ ~last.remote =>
                 LET first == CHOOSE i \in Unloadable(seating_plan) :
                                  \A k \in Unloadable(seating_plan) : i <= k
                 IN  last.value = LoadedInvite(seating_plan, first).value

C6_Witness ==
    /\ IsOp("build_dependencies")
    /\ Len(seating_plan.attendees) = 2
    /\ Unloadable(seating_plan) = {2}
    /\ Len(LoadedInvite(seating_plan, 1).value.runner_files) = 2
    /\ last.status = "panic"
    /\ last.docker_calls = <<>>

---------------------------------------------------------------------------
(* Properties of the lifecycle (Spec) *)

\* C27: get_wedding_invite returns the error value
\* "<venue>/<name>/wedding_invite.yml does not exist" when the file is
\* absent, an error value when the file exists and cannot be read as a
\* manifest, and the manifest only when the file exists and decodes; it
\* never panics
C27_InviteLoadReturnsResult ==
    IsOp("get_wedding_invite") =>
        LET file == InviteFilePath(last.venue_path, last.self.name)
            expected == Slashed(last.venue_path, last.self.name, <<"wedding_invite.yml">>)
            n == Len(last.value)
        IN  /\ last.status \in {"ok", "err"}
            /\ file \notin DOMAIN invite_files
                  => /\ last.status = "err"
                     /\ last.value[n] = " does not exist"
                     /\ PathEq(SubSeq(last.value, 1, n - 1), expected)
                     /\ last.venue_path[Len(last.venue_path)] # SEP
                           => last.value = expected \o <<" does not exist">>
            /\ (file \in DOMAIN invite_files /\ Len(invite_files[file]) # 1)
                  => /\ last.status = "err"
                     /\ last.value[n] # " does not exist"
            /\ (file \in DOMAIN invite_files /\ Len(invite_files[file]) = 1)
                  => /\ last.status = "ok"
                     /\ last.value = invite_files[file][1]

C27_Witness ==
    /\ IsOp("get_wedding_invite")
    /\ last.status = "err"
    /\ last.value = <<"Could not read values: ", "Could not read values: ", "invalid YAML">>
    /\ Len(seating_plan.attendees) = 2

\* the sub-command each facade operation is documented to run
SubCommandOf(op) ==
    CASE op \in {"teardown_dependencies", "teardown_remote_dependencies"} -> " down"
      [] op = "build_dependencies" -> " build"
      [] op \in {"run_dependencies", "run_remote_dependencies"} -> " up"
      [] op \in {"run_dependencies_background",
                 "run_remote_dependencies_background"} -> " up -d"

\* the compose files of a plan whose invites load: per attendee in manifest
\* order, the remote or the local list, each file under <venue>/<name>
AttendeePaths(plan, remote) ==
    Flatten([i \in 1..Len(plan.attendees) |->
                LET wedding_invite == LoadedInvite(plan, i).value
                    files == IF remote THEN Unwrapped(wedding_invite.remote_runner_files)
                             ELSE wedding_invite.runner_files
                IN  [j \in 1..Len(files) |->
                        Slashed(plan.venue, plan.attendees[i].name, files[j])]])

SamePaths(paths, expected) ==
    /\ Len(paths) = Len(expected)
    /\ \A k \in 1..Len(paths) : PathEq(paths[k], expected[k])

\* C23: a facade operation hands the command runner exactly the assembled
\* flag string followed by its sub-command (teardown " down", build
\* " build", run " up", background " up -d"), the remote variants with the
\* remote assembly; the buffer ends up as its previous content followed by
\* the sub-command
C23_FacadeRunsAssembledCommand ==
    (last.op \in LocalOps \cup RemoteOps /\ last.docker_calls # <<>>) =>
        LET command == last.docker_calls[1]
            n == Len(command)
            flags == SubSeq(command, 1, n - 1)
            remote == last.op \in RemoteOps
        IN  /\ Len(last.docker_calls) = 1
            /\ command[n] = SubCommandOf(last.op)
            /\ flags = get_compose_file_command(seating_plan, remote).value
            /\ SamePaths(FragmentPaths(flags), AttendeePaths(seating_plan, remote))
            /\ last.status = "ok" => last.value = flags \o <<SubCommandOf(last.op)>>

C23_Witness ==
    /\ IsOp("run_remote_dependencies_background")
    /\ last.status = "ok"
    /\ Len(seating_plan.attendees) = 2
    /\ Len(AttendeePaths(seating_plan, TRUE)) = 2
    /\ AttendeePaths(seating_plan, TRUE) # AttendeePaths(seating_plan, FALSE)
    /\ last.docker_calls[1][Len(last.docker_calls[1])] = " up -d"

\* C25: no orchestration path calls prepare_build_file on an unlocked
\* manifest whose build_files is absent; the dress-rehearsal build, remote
\* build and remote teardown never make such a call (and so never crash on
\* the missing build descriptor)
C25_NoPrepareWithoutBuildFiles ==
    IsOp("dress_rehearsal_factory") =>
        \A k \in 1..Len(last.installer_calls) :
            last.installer_calls[k].fn = "prepare_build_file"
                => ~(/\ IsNone(last.installer_calls[k].self.build_files)
                     /\ ~Locked(last.installer_calls[k].self.build_lock))

\* C26: the dress-rehearsal assembly is the Runner assembly for the same
\* remote flag followed by one "-f <working_directory>/<file> " per file of
\* the local invite's runner_files in list order: the local fragments come
\* after every attendee's, and with remote set the attendees contribute
\* their remote files while the local invite still contributes runner_files
C26_DressAssemblyAppendsLocal ==
    IsOp("DressRehearsal_get_compose_file_command") =>
        LET runner == get_compose_file_command(seating_plan, last.remote)
            files == last.wedding_invite.runner_files
        IN  IF runner.status = "panic" THEN last.status = "panic"
            ELSE LET paths == FragmentPaths(last.value)
                     attendee_paths == AttendeePaths(seating_plan, last.remote)
                     before == Len(attendee_paths)
                 IN  /\ last.status = "ok"
                     /\ SubSeq(last.value, 1, Len(runner.value)) = runner.value
                     /\ Len(paths) = before + Len(files)
                     /\ SamePaths(SubSeq(paths, 1, before), attendee_paths)
                     /\ \A j \in 1..Len(files) :
                           paths[before + j]
                               = last.working_directory \o <<SEP>> \o files[j]

C26_Witness ==
    /\ IsOp("DressRehearsal_get_compose_file_command")
    /\ last.remote
    /\ last.status = "ok"
    /\ Len(seating_plan.attendees) = 2
    /\ Len(AttendeePaths(seating_plan, TRUE)) = 2
    /\ Len(last.wedding_invite.runner_files) = 2
    /\ IsSome(last.wedding_invite.remote_runner_files)
    /\ Len(FragmentPaths(last.value)) = 4

\* the directory venue/name of the dependency a lifecycle operation was given
RepoDirOf(op) == Resolve(Slashed(op.venue_path, op.self.name, <<>>))

CloneCommandOf(op) == <<"cd ">> \o op.venue_path \o <<" && git clone ">> \o op.self.url

C8_CloneFailureIsError ==
    (IsOp("clone_github_repo") /\ last.run_calls # <<>> /\ last.outcome # "exit_zero")
        => last.status = "err"

\* C18: every operation on a dependency uses the one path venue/name: the
\* directory that a successful clone creates is the directory venue/name
\* that the existence check of clone tests and that checkout enters
C18_SingleMaterializedPath ==
    (IsOp("clone_github_repo") /\ last.run_calls # <<>> /\ last.outcome = "exit_zero")
        => RepoDirOf(last) \in dirs

C10_CreateVenueIdempotent ==
    [][(last'.op = "create_venue" /\ last' # last)
          => LET venue == Resolve(seating_plan.venue)
             IN  IF venue \in dirs
                 THEN /\ last'.status = "ok"
                      /\ last'.fs_ops = <<>>
                      /\ dirs' = dirs
                 ELSE /\ last'.fs_ops = << <<"create_dir_all">> \o seating_plan.venue >>
                      /\ dirs \subseteq dirs'
                      /\ last'.status \in {"ok", "err"}
                      /\ last'.status = "ok" <=> Prefixes(venue) \subseteq dirs']_vars

C10_Witness ==
    /\ IsOp("create_venue")
    /\ last.seq = 2
    /\ last.status = "ok"
    /\ last.fs_ops # <<>>
    /\ Len(Resolve(seating_plan.venue)) = 4
    /\ Cardinality(dirs) = 4

---------------------------------------------------------------------------
(* Properties of the install pass (SpecInstall) *)

\* the steps at which a clone or checkout command failed: it was not
\* spawned, or it exited with a non-zero status
FailedFetches ==
    { k \in 1..Len(install.steps) :
        /\ install.steps[k].step \in {"clone", "checkout"}
        /\ install.steps[k].calls # <<>>
        /\ install.steps[k].outcome # "exit_zero" }

PassEnded == install.pc \in {"done", "panicked"}

\* C14: when the clone or the checkout of an attendee fails, no further step
\* is taken for that attendee and the pass goes on to the next attendee
C14_FailureSkipsAttendee ==
    \A k \in FailedFetches :
        /\ \A j \in (k + 1)..Len(install.steps) :
              install.steps[j].i > install.steps[k].i
        /\ \/ install.i > install.steps[k].i
           \/ install.i = Len(seating_plan.attendees) /\ install.pc = "done"

\* C15: the pass is best-effort: whatever happened to earlier attendees,
\* when the pass has ended the loop has reached every attendee of the plan
C15_EveryAttendeeProcessed ==
    PassEnded => install.i = Len(seating_plan.attendees)

\* the loop has left attendee i behind without unwinding
Attended(i) ==
    \/ install.i > i
    \/ install.i = i /\ install.pc = "done"

\* the logged steps of that kind for attendee i
StepsOf(i, step) ==
    { k \in 1..Len(install.steps) :
        install.steps[k].i = i /\ install.steps[k].step = step }

\* attendee i was cloned and checked out with exit status zero
Fetched(i) ==
    /\ \E k \in StepsOf(i, "clone") : install.steps[k].outcome = "exit_zero"
    /\ \E k \in StepsOf(i, "checkout") : install.steps[k].outcome = "exit_zero"

\* a copy was handed to the file handle in a step of that kind for attendee i
CopyMade(i, step) ==
    \E k \in StepsOf(i, step) :
        /\ install.steps[k].calls # <<>>
        /\ install.steps[k].calls[1].op = "copy"

\* the invite that was loaded for attendee i
InviteOf(i) == get_wedding_invite(seating_plan.attendees[i], full_venue_path).value

\* C21: for every attendee that was cloned and checked out successfully
\* (on a host whose architecture every build_files map of the invite
\* lists), the init-build copy is made exactly when the invite has an
\* init_build whose lock is not set, and the top-level copy exactly when
\* build_files is present and the top-level lock is not set; in particular
\* an absent or locked top-level build does not suppress the init build
C21_BuildArmsIndependent ==
    \A i \in 1..Len(seating_plan.attendees) :
        (Attended(i) /\ Fetched(i) /\ hostArch = "x86_64") =>
            LET wedding_invite == InviteOf(i)
            IN  /\ CopyMade(i, "init_build")
                      <=> (/\ IsSome(wedding_invite.init_build)
                           /\ ~Locked(InitBuildOf(wedding_invite).build_lock))
                /\ CopyMade(i, "build")
                      <=> (/\ IsSome(wedding_invite.build_files)
                           /\ ~Locked(wedding_invite.build_lock))

\* C28: the clone skip never applies in install_dependencies: for every
\* attendee whose removal step did not fail, the clone step hands the clone
\* command of that attendee to the runner
C28_InstallAlwaysClones ==
    \A k \in 1..Len(install.steps) :
        install.steps[k].step = "clone" =>
            /\ install.steps[k].calls
                  = <<CloneCommandOf(
                        [self |-> seating_plan.attendees[install.steps[k].i],
                         venue_path |-> full_venue_path])>>
            /\ \E n \in 1..Len(run_log) : run_log[n] = install.steps[k].calls[1]

StepRank(step) ==
    CASE step = "remove" -> 1
      [] step = "clone" -> 2
      [] step = "checkout" -> 3
      [] step = "load" -> 4
      [] step = "build" -> 5
      [] step = "init_build" -> 6

\* the commands of the clone and checkout steps, in the order of the steps
FetchCommands(steps) ==
    Flatten([k \in 1..Len(steps) |->
                IF steps[k].step \in {"clone", "checkout"} THEN steps[k].calls ELSE <<>>])

\* C20: the steps of an attendee are taken in the order removal, clone,
\* checkout, invite load, build file, init build file, each one only after
\* the one it depends on, and all steps of an attendee before any step of
\* the next; the commands reach the runner in that same order
C20_FixedStepOrder ==
    LET steps == install.steps
        Follows(k, before) ==
            /\ k > 1
            /\ steps[k - 1].i = steps[k].i
            /\ steps[k - 1].step \in before
    IN  /\ \A k \in 1..(Len(steps) - 1) :
              \/ steps[k].i < steps[k + 1].i
              \/ /\ steps[k].i = steps[k + 1].i
                 /\ StepRank(steps[k].step) < StepRank(steps[k + 1].step)
        /\ \A k \in 1..Len(steps) :
              /\ steps[k].i <= install.i
              /\ steps[k].step = "checkout" => Follows(k, {"clone"})
              /\ steps[k].step = "load" => Follows(k, {"checkout"})
              /\ steps[k].step = "build" => Follows(k, {"load"})
              /\ steps[k].step = "init_build" => Follows(k, {"load", "build"})
        /\ run_log = FetchCommands(steps)

C20_Witness ==
    /\ install.pc = "done"
    /\ Len(seating_plan.attendees) = 2
    /\ Len(install.steps) >= 10
    /\ [k \in 1..6 |-> install.steps[k].step]
          = <<"remove", "clone", "checkout", "load", "build", "init_build">>
    /\ \A k \in 1..6 : install.steps[k].i = 1
    /\ install.steps[Len(install.steps)].step = "init_build"

\* the number of times a command was handed to CoreRunner::run
TimesRun(command) == Cardinality({ n \in 1..Len(run_log) : run_log[n] = command })

\* C22: nothing is retried: in one install pass the clone command and the
\* checkout command of an attendee are each handed to the runner at most
\* once, and a facade operation whose flag string was assembled hands its
\* docker-compose command to the command runner exactly once, whether the
\* spawn succeeds or not (an operation whose assembly failed hands none)
C22_NoRetry ==
    /\ \A i \in 1..Len(seating_plan.attendees) :
          /\ Cardinality(StepsOf(i, "clone")) <= 1
          /\ Cardinality(StepsOf(i, "checkout")) <= 1
          /\ \A k \in StepsOf(i, "clone") \cup StepsOf(i, "checkout") :
                /\ Len(install.steps[k].calls) <= 1
                /\ \A c \in 1..Len(install.steps[k].calls) :
                      TimesRun(install.steps[k].calls[c]) = 1
    /\ Len(run_log) = Len(FetchCommands(install.steps))
    /\ (last.op \in LocalOps \cup RemoteOps) =>
          Len(last.docker_calls)
              = IF get_compose_file_command(seating_plan, last.op \in RemoteOps).status
                     = "ok"
                THEN 1 ELSE 0

C22_Witness ==
    /\ install.pc = "done"
    /\ Len(seating_plan.attendees) = 2
    /\ \A i \in 1..2 : StepsOf(i, "clone") # {} /\ StepsOf(i, "checkout") # {}
    /\ Len(run_log) = 4
    /\ IsOp("run_dependencies")
    /\ last.status = "panic"
    /\ Len(last.docker_calls) = 1

---------------------------------------------------------------------------
(* Properties of the draining loop (SpecDrain) *)

Draining == drain.pc \in {"read_stdout", "read_stderr", "test_output"}

\* C16: when the draining loop has terminated no stream has a line left to
\* deliver, also when lines read in a pass were empty lines
C16_DrainEndsExhausted ==
    drain.pc = "done" => \A stream \in Streams : drain.pipe[stream] = <<>>

\* C17: the loop never blocks for ever on one stream while the other has
\* pending data: a line pending on a stream is eventually read, unless the
\* loop has ended, also when the other stream stays open and silent
C17_PendingLineIsRead ==
    \A stream \in Streams : \A n \in 0..MaxLines :
        (Draining /\ drain.pipe[stream] # <<>> /\ drain.read[stream] = n)
            ~> (~Draining \/ drain.read[stream] > n)

\* C29: once the child has closed both streams the draining loop ends, and
\* at every moment the lines printed from a stream are the first lines that
\* stream produced, in the order it produced them
C29_ClosedStreamsEndTheLoop ==
    /\ [](\A stream \in Streams :
             IsPrefix(drain.shown[stream], drain.produced[stream]))
    /\ (\A stream \in Streams : ~drain.open[stream]) ~> ~Draining

C29_Witness ==
    /\ drain.pc = "done"
    /\ \A stream \in Streams : ~drain.open[stream]
    /\ Len(drain.shown["stdout"]) = 2
    /\ Len(drain.shown["stderr"]) = 1
    /\ drain.shown["stdout"][1] # drain.shown["stdout"][2]
    /\ drain.shown = drain.produced

====
